---------------------------- MODULE Spec2Model ----------------------------
(***************************************************************************)
(* A model of pico-1wire-lib (src/src/pico_1wire.c): a bit-banged 1-Wire    *)
(* bus master.  The library's functions are operators computed the way the  *)
(* C code computes them; every public call is one action (the ROM search is *)
(* one action for its entry and one per iteration of its while loop).  The  *)
(* slave devices on the bus are the environment: they answer the slots the  *)
(* master issues as the 1-Wire protocol prescribes (wired-AND of all the    *)
(* devices that are driving the line).                                      *)
(*                                                                         *)
(* A uint64_t is a tuple of 64 bits, v[i+1] being bit i (bit 0 the least    *)
(* significant); the target is little-endian, so byte k of the value in     *)
(* memory (the byte a uint8_t pointer to it indexes by k) is bits 8k..8k+7. *)
(***************************************************************************)
EXTENDS Integers, Sequences, FiniteSets, TLC

VARIABLES
  devices,          \* environment: the slave devices on the bus
  pulse_at,         \* environment: sample of the reset loop at which the presence pulse is seen
  ctx,              \* pico_1wire_t: power_available, power_state, psu_present
  power_level,      \* level last put on the power pin (strong pull-up MOSFET gate)
  call,             \* the public call in progress or last returned: op, addr, arg, ret, out
  bus_log,          \* bus activity of that call, in order
  pc,               \* "idle", or "search" inside pico_1wire_search_rom's loop
  rom_addr,         \* pico_1wire_search_rom: local rom_addr
  done,             \* pico_1wire_search_rom: local done
  last_discrepancy, \* pico_1wire_search_rom: local last_discrepancy
  addr_list,        \* caller's buffer, a function on 0..addr_list_size-1
  addr_list_size,   \* caller's buffer capacity
  devices_found,    \* caller's *devices_found
  overrun,          \* TRUE once addr_list has been written at an index >= addr_list_size
  find_calls,       \* calls of find_next_device made by the search so far
  gpio_dir,         \* direction of the data pin and of the power pin: "in", "out", "unset"
  null_args         \* the pointer arguments of the call that were NULL: "ctx", "out"

vars == <<devices, pulse_at, ctx, power_level, call, bus_log, pc, rom_addr, done,
          last_discrepancy, addr_list, addr_list_size, devices_found, overrun,
          find_calls, gpio_dir, null_args>>

----------------------------------------------------------------------------
(* ROM commands, function commands, family codes, timings *)

CMD_SEARCH == 240
CMD_READ == 51
CMD_MATCH == 85
CMD_SKIP == 204
CMD_CONVERT == 68
CMD_WRITE_SCRATCHPAD == 78
CMD_READ_SCRATCHPAD == 190
CMD_READ_POWER_SUPPLY == 180

FAMILY_CODE_DS18S20 == 16
FAMILY_CODE_DS1822 == 34
FAMILY_CODE_DS18B20 == 40
FAMILY_CODE_DS1825 == 59
FAMILY_CODE_DS28EA00 == 66

RESET_PULSE_TX_MIN_LEN == 480
RESET_PULSE_RX_MIN_LEN == 480
MAX_TEMP_CONVERSION_TIME == 750

----------------------------------------------------------------------------
(* Bytes and bits *)

Bit(n, i) == (n \div (2 ^ i)) % 2

\* a ^ b on bytes
Xor(a, b) ==
  ((Bit(a, 0) + Bit(b, 0)) % 2) + 2 * ((Bit(a, 1) + Bit(b, 1)) % 2)
  + 4 * ((Bit(a, 2) + Bit(b, 2)) % 2) + 8 * ((Bit(a, 3) + Bit(b, 3)) % 2)
  + 16 * ((Bit(a, 4) + Bit(b, 4)) % 2) + 32 * ((Bit(a, 5) + Bit(b, 5)) % 2)
  + 64 * ((Bit(a, 6) + Bit(b, 6)) % 2) + 128 * ((Bit(a, 7) + Bit(b, 7)) % 2)

\* a & b on bytes
And8(a, b) ==
  Bit(a, 0) * Bit(b, 0) + 2 * Bit(a, 1) * Bit(b, 1) + 4 * Bit(a, 2) * Bit(b, 2)
  + 8 * Bit(a, 3) * Bit(b, 3) + 16 * Bit(a, 4) * Bit(b, 4) + 32 * Bit(a, 5) * Bit(b, 5)
  + 64 * Bit(a, 6) * Bit(b, 6) + 128 * Bit(a, 7) * Bit(b, 7)

\* a | b on bytes
Or8(a, b) == a + b - And8(a, b)

\* the byte whose bit i is bits[i+1]
BitsToByte(bits) ==
  bits[1] + 2 * bits[2] + 4 * bits[3] + 8 * bits[4] + 16 * bits[5] + 32 * bits[6]
  + 64 * bits[7] + 128 * bits[8]

\* a sequence given as a function on 1..n, as a tuple
Tuple(f) == f \o <<>>

\* the 8 bits of a byte, least significant first
ByteToBits(b) == Tuple([i \in 1..8 |-> Bit(b, i - 1)])

RECURSIVE Flatten(_)
Flatten(ss) == IF ss = <<>> THEN <<>> ELSE Head(ss) \o Flatten(Tail(ss))

\* the bits of a byte sequence, each byte least significant bit first
BytesToBits(bs) ==
  Tuple([i \in 1..(8 * Len(bs)) |-> Bit(bs[((i - 1) \div 8) + 1], (i - 1) % 8)])

\* the bytes of a bit sequence whose length is a multiple of 8
BitsToBytes(bits) ==
  Tuple([k \in 1..(Len(bits) \div 8) |-> BitsToByte(SubSeq(bits, 8 * k - 7, 8 * k))])

----------------------------------------------------------------------------
(* CRC-8 *)

pico_1wire_crc8_lookup_table ==
  <<0, 94, 188, 226, 97, 63, 221, 131, 194, 156, 126, 32, 163, 253, 31, 65,
    157, 195, 33, 127, 252, 162, 64, 30, 95, 1, 227, 189, 62, 96, 130, 220,
    35, 125, 159, 193, 66, 28, 254, 160, 225, 191, 93, 3, 128, 222, 60, 98,
    190, 224, 2, 92, 223, 129, 99, 61, 124, 34, 192, 158, 29, 67, 161, 255,
    70, 24, 250, 164, 39, 121, 155, 197, 132, 218, 56, 102, 229, 187, 89, 7,
    219, 133, 103, 57, 186, 228, 6, 88, 25, 71, 165, 251, 120, 38, 196, 154,
    101, 59, 217, 135, 4, 90, 184, 230, 167, 249, 27, 69, 198, 152, 122, 36,
    248, 166, 68, 26, 153, 199, 37, 123, 58, 100, 134, 216, 91, 5, 231, 185,
    140, 210, 48, 110, 237, 179, 81, 15, 78, 16, 242, 172, 47, 113, 147, 205,
    17, 79, 173, 243, 112, 46, 204, 146, 211, 141, 111, 49, 178, 236, 14, 80,
    175, 241, 19, 77, 206, 144, 114, 44, 109, 51, 209, 143, 12, 82, 176, 238,
    50, 108, 142, 208, 83, 13, 239, 177, 240, 174, 76, 18, 145, 207, 45, 115,
    202, 148, 118, 40, 171, 245, 23, 73, 8, 86, 180, 234, 105, 55, 213, 139,
    87, 9, 235, 181, 54, 104, 138, 212, 149, 203, 41, 119, 244, 170, 72, 22,
    233, 183, 85, 11, 136, 214, 52, 106, 43, 117, 151, 201, 74, 20, 246, 168,
    116, 42, 200, 150, 21, 75, 169, 247, 182, 232, 10, 84, 215, 137, 107, 53>>
\* variant: the running CRC left out of the table index
crc8_DataOnly(crc, data) == pico_1wire_crc8_lookup_table[data + 1]

\* return pico_1wire_crc8_lookup_table[crc ^ data]
crc8(crc, data) == pico_1wire_crc8_lookup_table[Xor(crc, data) + 1]

----------------------------------------------------------------------------
(* uint64_t *)

U64Zero == Tuple([i \in 1..64 |-> 0])

\* variant: sets a bit but never clears one
uint64_set_bit_SetOnly(var, bit, value) ==
  IF value = 1 THEN [var EXCEPT ![bit + 1] = 1] ELSE var

uint64_set_bit(var, bit, value) == [var EXCEPT ![bit + 1] = value]

\* (v & ((uint64_t)1 << bit)) != 0, as 0 or 1
U64Bit(v, bit) == v[bit + 1]

\* byte k of v in memory
U64Byte(v, k) == BitsToByte(SubSeq(v, 8 * k + 1, 8 * k + 8))

\* v with byte k in memory set to b
U64SetByte(v, k, b) ==
  Tuple([i \in 1..64 |-> IF (i - 1) \div 8 = k THEN Bit(b, (i - 1) % 8) ELSE v[i]])

\* (v << 8) | b, b a byte
U64Shl8Or(v, b) == Tuple([i \in 1..64 |-> IF i <= 8 THEN Bit(b, i - 1) ELSE v[i - 8]])

\* Body of the value of v, v being evaluated once
Bind(v, Body(_)) == CHOOSE r \in {Body(x) : x \in {v}} : TRUE

\* the uint64_t written most significant byte first, as an address is displayed
U64FromBytes(bs) ==
  Tuple([i \in 1..64 |-> Bit(bs[8 - ((i - 1) \div 8)], (i - 1) % 8)])

ADDR_FAMILY_CODE(x) == U64Byte(x, 7)

NULL_BUS_ADDRESS == U64Zero

----------------------------------------------------------------------------
(* Environment: the slave devices and the line.                            *)
(* A device has rom, its 64-bit ROM code in the order it is emitted (family *)
(* code byte first, each byte least significant bit first; rom[i] is the    *)
(* bit of the i-th slot), parasitic (no supply of its own), ignores_write    *)
(* (a Write Scratchpad has no effect on it) and sp, the 8 data bytes of its *)
(* scratchpad.  The protocol values below are those of the 1-Wire devices,  *)
(* written as numbers.                                                      *)

Device(rom_bytes, parasitic, ignores_write, sp) ==
  [rom |-> BytesToBits(rom_bytes), parasitic |-> parasitic,
   ignores_write |-> ignores_write, sp |-> sp]

\* DS18B20 28-FF641E0F2B3C, own supply, 12 bit, 85.0 C
DevA == Device(<<40, 255, 100, 30, 15, 43, 60, 203>>, FALSE, FALSE,
               <<80, 5, 75, 70, 127, 255, 12, 16>>)
\* DS18B20 28-6164123C7A9F, parasitic, 10 bit, -0.5 C, ignores writes
DevB == Device(<<40, 97, 100, 18, 60, 122, 159, 191>>, TRUE, TRUE,
               <<248, 255, 75, 70, 63, 255, 8, 16>>)
\* DS18S20 10-A25B010800C4, own supply
DevC == Device(<<16, 162, 91, 1, 8, 0, 196, 45>>, FALSE, FALSE,
               <<170, 0, 75, 70, 255, 255, 12, 16>>)
\* DS2438 26-112233445566 (a family the library does not handle), parasitic
DevD == Device(<<38, 17, 34, 51, 68, 85, 102, 41>>, TRUE, FALSE,
               <<16, 1, 75, 70, 127, 255, 12, 16>>)

DevicePool == <<DevA, DevB, DevC, DevD>>

\* the number of devices of the largest bus
MaxDevices == 3

\* the static buses: the first n devices of the pool, and the parasitic device alone
Buses ==
  {{DevicePool[i] : i \in 1..n} : n \in 0..MaxDevices} \cup {{DevB}}

\* the sample of the reset loop at which a present device is first seen pulling low
PulseAts == {0, 4}

\* the bit of the 72 scratchpad bits that a read finds inverted (0: none)
Glitches == {0, 38, 65}

DevFamily(d) == BitsToByte(SubSeq(d.rom, 1, 8))

\* the device's CRC shift register (x^8 + x^5 + x^4 + 1) after one more bit
DevCrcBit(crc, bit) ==
  IF (crc + bit) % 2 = 1 THEN Xor(crc \div 2, 140) ELSE crc \div 2

\* the shift register after the 8 bits of a byte, least significant first
DevCrcByte(crc, byte) ==
  LET c1 == DevCrcBit(crc, Bit(byte, 0))
      c2 == DevCrcBit(c1, Bit(byte, 1))
      c3 == DevCrcBit(c2, Bit(byte, 2))
      c4 == DevCrcBit(c3, Bit(byte, 3))
      c5 == DevCrcBit(c4, Bit(byte, 4))
      c6 == DevCrcBit(c5, Bit(byte, 5))
      c7 == DevCrcBit(c6, Bit(byte, 6))
  IN DevCrcBit(c7, Bit(byte, 7))

RECURSIVE DevCrc(_, _)
\* the shift register after the bytes bs
DevCrc(crc, bs) ==
  IF crc < 0 \/ bs = <<>> THEN crc ELSE DevCrc(DevCrcByte(crc, Head(bs)), Tail(bs))

\* the 9 bytes a device sends for Read Scratchpad
DevScratchpad(d) == d.sp \o <<DevCrc(0, d.sp)>>

\* open drain: the line is low when any device pulls it low
WiredAnd(levels) == IF 0 \in levels THEN 0 ELSE 1

\* the devices that a ROM command (the bytes wb written since the reset) selects
Selected(devs, wb) ==
  IF wb = <<>> THEN {}
  ELSE IF wb[1] = 204 THEN devs
  ELSE IF wb[1] = 85 /\ Len(wb) >= 9
       THEN {d \in devs : d.rom = BytesToBits(SubSeq(wb, 2, 9))}
  ELSE {}

\* the bytes written after the ROM command and its address
FunctionBytes(wb) ==
  IF wb = <<>> THEN <<>>
  ELSE IF wb[1] = 85 THEN SubSeq(wb, 10, Len(wb))
  ELSE Tail(wb)

\* the level of the k-th sample (k = 0, 1, ...) of the presence window
LineLow(b, k) == b.devs # {} /\ k >= b.pa

\* the levels of n slots in which the sequences sent are those of the set sent
LineLevels(sent, n) == Tuple([i \in 1..n |-> WiredAnd({t[i] : t \in sent})])

\* the 64 levels read after Read ROM: every device sends its ROM code
RomLevels(b, wb) ==
  LineLevels(IF wb = <<51>> THEN {d.rom : d \in b.devs} ELSE {}, 64)

\* the level read after Read Power Supply: a parasitic device pulls low
PowerLevel(b, wb) ==
  IF FunctionBytes(wb) = <<180>>
  THEN WiredAnd({IF d.parasitic THEN 0 ELSE 1 : d \in Selected(b.devs, wb)})
  ELSE 1

\* the 72 levels read after Read Scratchpad, bit glitch (if not 0) inverted
ScratchpadLevels(b, wb, glitch) ==
  LET sel == IF FunctionBytes(wb) = <<190>> THEN Selected(b.devs, wb) ELSE {}
  IN Bind(LineLevels({BytesToBits(DevScratchpad(d)) : d \in sel}, 72), LAMBDA line :
       Tuple([i \in 1..72 |-> IF i = glitch THEN 1 - line[i] ELSE line[i]]))

\* a device after Write Scratchpad: T(H), T(L) and, but for the DS18S20, the
\* configuration register, of which only R1 R0 (bits 6 and 5) are writable
DevWritten(d, fb) ==
  IF DevFamily(d) = 16
  THEN IF Len(fb) >= 3 THEN [d EXCEPT !.sp[3] = fb[2], !.sp[4] = fb[3]] ELSE d
  ELSE IF Len(fb) >= 4
       THEN [d EXCEPT !.sp[3] = fb[2], !.sp[4] = fb[3],
                      !.sp[5] = Or8(And8(fb[4], 96), 31)]
       ELSE d

\* the address of a device as the library reports it: the ROM code with the
\* family code in the most significant byte
DevAddr(d) == U64FromBytes(BitsToBytes(d.rom))

\* the devices after the bytes wb
DevicesAfter(devs, wb) ==
  Bind(FunctionBytes(wb), LAMBDA fb :
  Bind(Selected(devs, wb), LAMBDA sel :
    IF fb # <<>> /\ fb[1] = 78
    THEN {IF d \in sel /\ ~d.ignores_write THEN DevWritten(d, fb) ELSE d : d \in devs}
    ELSE devs))

----------------------------------------------------------------------------
(* Bus activity.  An event is [e, v]: "pwr" v, gpio_put(power_pin, v);      *)
(* "reset" v, a reset pulse and presence window that found (1) or did not   *)
(* find (0) a presence pulse; "w" v, a write slot of bit v; "r" v, a read   *)
(* slot that sampled v; "sleep_ms" v, sleep_ms(v).                          *)

Ev(e, v) == [e |-> e, v |-> v]

\* the bits written in a log
WBits(log) ==
  Bind(SelectSeq(log, LAMBDA x : x.e = "w"), LAMBDA ws :
    Tuple([i \in 1..Len(ws) |-> ws[i].v]))

\* the bytes written in a log
WBytes(log) == BitsToBytes(WBits(log))

\* the bits read in a log
RBits(log) ==
  Bind(SelectSeq(log, LAMBDA x : x.e = "r"), LAMBDA rs :
    Tuple([i \in 1..Len(rs) |-> rs[i].v]))

power_mosfet_on(c) ==
  IF c.power_available THEN <<Ev("pwr", c.power_state)>> ELSE <<>>

\* variant: the level that turns the MOSFET on
power_mosfet_off_Asserts(c) ==
  IF c.power_available THEN <<Ev("pwr", c.power_state)>> ELSE <<>>

power_mosfet_off(c) ==
  IF c.power_available THEN <<Ev("pwr", 1 - c.power_state)>> ELSE <<>>

write_bit(data) == <<Ev("w", data)>>

RECURSIVE WriteByteLoop(_, _)
WriteByteLoop(i, data) ==
  IF i >= 8 THEN <<>> ELSE write_bit(data % 2) \o WriteByteLoop(i + 1, data \div 2)

write_byte(data) == WriteByteLoop(0, data)

\* level: what the line is at when sampled
read_bit(level) == [result |-> level = 1, log |-> <<Ev("r", level)>>]

RECURSIVE ReadByteLoop(_, _)
\* the for loop of read_byte; s: i, result
ReadByteLoop(s, levels) ==
  IF s.i >= 8 THEN s.result
  ELSE ReadByteLoop([i |-> s.i + 1,
                     result |-> (s.result \div 2)
                                + (IF read_bit(levels[s.i + 1]).result THEN 128 ELSE 0)],
                    levels)

\* levels: the 8 levels of the 8 read slots
read_byte(levels) ==
  [result |-> ReadByteLoop([i |-> 0, result |-> 0], levels),
   log |-> Tuple([i \in 1..8 |-> read_bit(levels[i]).log[1]])]

RECURSIVE PresenceLoop_Upto250(_, _)
\* variant: the loop left at i > 250
PresenceLoop_Upto250(i, b) ==
  IF i > 250 THEN [device_found |-> FALSE, i |-> i, samples |-> 0, slept |-> 0]
  ELSE IF LineLow(b, i \div 10)
       THEN [device_found |-> TRUE, i |-> i, samples |-> 1, slept |-> 0]
       ELSE Bind(PresenceLoop_Upto250(i + 10, b), LAMBDA l :
              [l EXCEPT !.samples = @ + 1, !.slept = @ + 10])

RECURSIVE PresenceLoop(_, _)
\* the sampling loop of pico_1wire_reset_bus from i on: device_found, the
\* final i, the calls of gpio_get made and the time slept in sleep_us(10)
PresenceLoop(i, b) ==
  IF i > 240 THEN [device_found |-> FALSE, i |-> i, samples |-> 0, slept |-> 0]
  ELSE IF LineLow(b, i \div 10)
       THEN [device_found |-> TRUE, i |-> i, samples |-> 1, slept |-> 0]
       ELSE Bind(PresenceLoop(i + 10, b), LAMBDA l :
              [l EXCEPT !.samples = @ + 1, !.slept = @ + 10])

\* variant: the presence sample ignored, a device always reported
pico_1wire_reset_bus_AlwaysFound(c, b) ==
  Bind(PresenceLoop(0, b), LAMBDA l :
    [device_found |-> TRUE,
     tx_sleep |-> RESET_PULSE_TX_MIN_LEN,
     samples |-> l.samples,
     slept |-> 15 + l.slept,
     rx_sleep |-> RESET_PULSE_RX_MIN_LEN - 15 - l.i,
     log |-> power_mosfet_off(c) \o <<Ev("reset", IF l.device_found THEN 1 ELSE 0)>>])

\* c: the context; b: the bus, [devs, pa]
pico_1wire_reset_bus(c, b) ==
  Bind(PresenceLoop(0, b), LAMBDA l :
    [device_found |-> l.device_found,
     tx_sleep |-> RESET_PULSE_TX_MIN_LEN,
     samples |-> l.samples,
     slept |-> 15 + l.slept,
     rx_sleep |-> RESET_PULSE_RX_MIN_LEN - 15 - l.i,
     log |-> power_mosfet_off(c) \o <<Ev("reset", IF l.device_found THEN 1 ELSE 0)>>])

\* variant: Match ROM sent for every address, the null address included
match_rom_NoSkip(c, b, addr) ==
  Bind(pico_1wire_reset_bus(c, b), LAMBDA r :
    IF ~r.device_found THEN [ret |-> 1, log |-> r.log]
    ELSE [ret |-> 0,
          log |-> r.log \o write_byte(CMD_MATCH)
                  \o Flatten([i \in 1..8 |-> write_byte(U64Byte(addr, 7 - (i - 1)))])])

match_rom(c, b, addr) ==
  Bind(pico_1wire_reset_bus(c, b), LAMBDA r :
    IF ~r.device_found THEN [ret |-> 1, log |-> r.log]
    ELSE IF addr = U64Zero
         THEN [ret |-> 0, log |-> r.log \o write_byte(CMD_SKIP)]
         ELSE [ret |-> 0,
               log |-> r.log \o write_byte(CMD_MATCH)
                       \o Flatten([i \in 1..8 |-> write_byte(U64Byte(addr, 7 - (i - 1)))])])

----------------------------------------------------------------------------
(* ROM search *)

\* environment: the devices that take part in a search after the bytes wb
SearchParticipants(b, wb) == IF wb = <<240>> THEN b.devs ELSE {}

\* variant: at a discrepancy before the last one, too, the bit cleared
SearchTurn_ZeroBefore(s, last) ==
  Bind(s.rom_bit_index, LAMBDA rom_bit_index :
  Bind(WiredAnd({d.rom[rom_bit_index] : d \in s.parts}), LAMBDA bit_a :
  Bind(WiredAnd({1 - d.rom[rom_bit_index] : d \in s.parts}), LAMBDA bit_b :
  Bind(IF bit_a = bit_b
       THEN IF rom_bit_index = last
            THEN uint64_set_bit(s.addr, rom_bit_index - 1, 1)
            ELSE uint64_set_bit(s.addr, rom_bit_index - 1, 0)
       ELSE uint64_set_bit(s.addr, rom_bit_index - 1, bit_a), LAMBDA addr2 :
  Bind(U64Bit(addr2, rom_bit_index - 1), LAMBDA w :
    LET rlog == s.log \o read_bit(bit_a).log \o read_bit(bit_b).log
        discrepancy2 ==
          IF bit_a = bit_b
          THEN IF rom_bit_index = last THEN s.discrepancy
               ELSE IF rom_bit_index > last THEN rom_bit_index
               ELSE IF U64Bit(s.addr, rom_bit_index - 1) = 0 THEN rom_bit_index
               ELSE s.discrepancy
          ELSE s.discrepancy
    IN IF bit_a = 1 /\ bit_b = 1
       THEN [s EXCEPT !.returned = TRUE, !.log = rlog]
       ELSE [rom_bit_index |-> rom_bit_index + 1, addr |-> addr2,
             discrepancy |-> discrepancy2, log |-> rlog \o write_bit(w),
             returned |-> FALSE,
             parts |-> {d \in s.parts : d.rom[rom_bit_index] = w}])))))

\* one turn of the do-while loop of find_next_device.  s: rom_bit_index, addr,
\* discrepancy, log, returned (the both-bits-1 return was taken) and parts, the
\* devices still taking part (environment): each sends its bit and then the
\* complement, and drops out when the bit written back is not its own.
SearchTurn(s, last) ==
  Bind(s.rom_bit_index, LAMBDA rom_bit_index :
  Bind(WiredAnd({d.rom[rom_bit_index] : d \in s.parts}), LAMBDA bit_a :
  Bind(WiredAnd({1 - d.rom[rom_bit_index] : d \in s.parts}), LAMBDA bit_b :
  Bind(IF bit_a = bit_b
       THEN IF rom_bit_index = last
            THEN uint64_set_bit(s.addr, rom_bit_index - 1, 1)
            ELSE IF rom_bit_index > last
                 THEN uint64_set_bit(s.addr, rom_bit_index - 1, 0)
                 ELSE s.addr
       ELSE uint64_set_bit(s.addr, rom_bit_index - 1, bit_a), LAMBDA addr2 :
  Bind(U64Bit(addr2, rom_bit_index - 1), LAMBDA w :
    LET rlog == s.log \o read_bit(bit_a).log \o read_bit(bit_b).log
        discrepancy2 ==
          IF bit_a = bit_b
          THEN IF rom_bit_index = last THEN s.discrepancy
               ELSE IF rom_bit_index > last THEN rom_bit_index
               ELSE IF U64Bit(s.addr, rom_bit_index - 1) = 0 THEN rom_bit_index
               ELSE s.discrepancy
          ELSE s.discrepancy
    IN IF bit_a = 1 /\ bit_b = 1
       THEN [s EXCEPT !.returned = TRUE, !.log = rlog]
       ELSE [rom_bit_index |-> rom_bit_index + 1, addr |-> addr2,
             discrepancy |-> discrepancy2, log |-> rlog \o write_bit(w),
             returned |-> FALSE,
             parts |-> {d \in s.parts : d.rom[rom_bit_index] = w}])))))

RECURSIVE SearchTurns(_, _, _)
\* the turns of the loop up to rom_bit_index = to
SearchTurns(s, to, last) ==
  IF s.returned \/ s.rom_bit_index > to THEN s
  ELSE Bind(SearchTurn(s, last), LAMBDA t : SearchTurns(t, to, last))

RECURSIVE SearchLoop(_, _)
\* the do-while loop (while rom_bit_index <= 64), its turns taken 8 at a time
SearchLoop(s, last) ==
  IF s.returned \/ ~(s.rom_bit_index <= 64) THEN s
  ELSE Bind(SearchTurns(s, s.rom_bit_index + 7, last), LAMBDA t : SearchLoop(t, last))

\* variant: the done flag left set
TerminalCall_KeepDone(addr, last) ==
  [result |-> FALSE, addr |-> addr, done |-> TRUE, last_discrepancy |-> last,
   log |-> <<>>]

\* the call that finds *done set: if (*done) { *done = false; return result; }
TerminalCall(addr, last) ==
  [result |-> FALSE, addr |-> addr, done |-> FALSE, last_discrepancy |-> last,
   log |-> <<>>]

\* variant: the done flag never set
DoneAfterPass_Never(discrepancy, dn) == dn

\* *done after a pass that went through all 64 bits:
\* if (*last_discrepancy == 0) *done = true
DoneAfterPass(discrepancy, dn) == IF discrepancy = 0 THEN TRUE ELSE dn

\* addr, dn, last: *addr, *done, *last_discrepancy on entry; the result holds
\* them on return
find_next_device(c, b, addr, dn, last) ==
  IF dn
  THEN TerminalCall(addr, last)
  ELSE Bind(pico_1wire_reset_bus(c, b), LAMBDA r :
         IF ~r.device_found
         THEN [result |-> FALSE, addr |-> addr, done |-> dn, last_discrepancy |-> 0,
               log |-> r.log]
         ELSE Bind(r.log \o write_byte(CMD_SEARCH), LAMBDA wlog :
              Bind(Bind([rom_bit_index |-> 1, addr |-> addr,
                         discrepancy |-> 0, log |-> wlog, returned |-> FALSE,
                         parts |-> SearchParticipants(b, WBytes(wlog))],
                        LAMBDA s0 : SearchLoop(s0, last)), LAMBDA s :
                IF s.returned
                THEN [result |-> FALSE, addr |-> s.addr, done |-> dn,
                      last_discrepancy |-> 0, log |-> s.log]
                ELSE [result |-> TRUE, addr |-> s.addr,
                      done |-> DoneAfterPass(s.discrepancy, dn),
                      last_discrepancy |-> s.discrepancy, log |-> s.log])))

RECURSIVE ReverseLoop_Forward(_, _)
\* variant: the bytes copied in the order they came
ReverseLoop_Forward(s, rom) ==
  IF s.i >= 8 THEN s
  ELSE Bind(U64Byte(rom, s.i), LAMBDA bt :
       Bind([i |-> s.i + 1, new_addr |-> U64SetByte(s.new_addr, s.i, bt),
             crc |-> IF s.i < 7 THEN crc8(s.crc, bt) ELSE s.crc, byte |-> bt],
            LAMBDA t : ReverseLoop_Forward(t, rom)))

RECURSIVE ReverseLoop(_, _)
\* the for loop of pico_1wire_search_rom that checks the CRC and reverses the
\* byte order; s: i, new_addr, crc, byte
ReverseLoop(s, rom) ==
  IF s.i >= 8 THEN s
  ELSE Bind(U64Byte(rom, s.i), LAMBDA bt :
       Bind([i |-> s.i + 1, new_addr |-> U64SetByte(s.new_addr, 7 - s.i, bt),
             crc |-> IF s.i < 7 THEN crc8(s.crc, bt) ELSE s.crc, byte |-> bt],
            LAMBDA t : ReverseLoop(t, rom)))

\* variant: the capacity test left out
ListFull_Never(found, size) == FALSE

\* whether the loop body returns 2 instead of storing
ListFull(found, size) == found >= size

\* addr_list[found] = new_addr: the list, and whether the write fell outside it
StoreAddr(list, size, found, new_addr) ==
  IF found < size
  THEN [list |-> [list EXCEPT ![found] = new_addr], overrun |-> FALSE]
  ELSE [list |-> list, overrun |-> TRUE]

\* variant: a CRC mismatch ends the search
search_rom_iteration_AbortOnCrc(c, b, addr, dn, last, list, size, found) ==
  Bind(find_next_device(c, b, addr, dn, last), LAMBDA f :
  Bind(ReverseLoop([i |-> 0, new_addr |-> U64Zero, crc |-> 0, byte |-> 0], f.addr),
       LAMBDA v :
  Bind(StoreAddr(list, size, found, v.new_addr), LAMBDA st :
  Bind([returned |-> FALSE, ret |-> 0, rom_addr |-> f.addr, done |-> f.done,
        last_discrepancy |-> f.last_discrepancy, list |-> list,
        found |-> found, overrun |-> FALSE, log |-> f.log], LAMBDA keep :
       IF ~f.result THEN [keep EXCEPT !.returned = TRUE, !.ret = 0]
       ELSE IF v.crc = v.byte
            THEN IF ListFull(found, size)
                 THEN [keep EXCEPT !.returned = TRUE, !.ret = 2]
                 ELSE [keep EXCEPT !.list = st.list, !.found = found + 1,
                                   !.overrun = st.overrun]
            ELSE [keep EXCEPT !.returned = TRUE, !.ret = 2]))))

\* one evaluation of the while condition of pico_1wire_search_rom and, when it
\* holds, of the loop body.  returned: the function returns ret
search_rom_iteration(c, b, addr, dn, last, list, size, found) ==
  Bind(find_next_device(c, b, addr, dn, last), LAMBDA f :
  Bind(ReverseLoop([i |-> 0, new_addr |-> U64Zero, crc |-> 0, byte |-> 0], f.addr),
       LAMBDA v :
  Bind(StoreAddr(list, size, found, v.new_addr), LAMBDA st :
  Bind([returned |-> FALSE, ret |-> 0, rom_addr |-> f.addr, done |-> f.done,
        last_discrepancy |-> f.last_discrepancy, list |-> list,
        found |-> found, overrun |-> FALSE, log |-> f.log], LAMBDA keep :
       IF ~f.result THEN [keep EXCEPT !.returned = TRUE, !.ret = 0]
       ELSE IF v.crc = v.byte
            THEN IF ListFull(found, size)
                 THEN [keep EXCEPT !.returned = TRUE, !.ret = 2]
                 ELSE [keep EXCEPT !.list = st.list, !.found = found + 1,
                                   !.overrun = st.overrun]
            ELSE keep))))

----------------------------------------------------------------------------
(* Public functions.  Each gives ret, the status returned; out, the values   *)
(* written through the output pointer (<<>>: not written); log; psu, the     *)
(* context's psu_present on return; devs, the devices on return.             *)

Result(ret, out, log, psu, devs) ==
  [ret |-> ret, out |-> out, log |-> log, psu |-> psu, devs |-> devs]

RECURSIVE ReadRomLoop_CrcAll(_, _)
\* variant: the CRC folded over all 8 bytes
ReadRomLoop_CrcAll(s, levels) ==
  IF s.i >= 8 THEN s
  ELSE Bind(read_byte(SubSeq(levels, 8 * s.i + 1, 8 * s.i + 8)), LAMBDA rb :
         ReadRomLoop_CrcAll([i |-> s.i + 1,
                             crc |-> crc8(s.crc, rb.result),
                             b |-> rb.result, addr |-> U64Shl8Or(s.addr, rb.result),
                             log |-> s.log \o rb.log],
                            levels))

RECURSIVE ReadRomLoop(_, _)
\* the for loop of pico_1wire_read_rom; s: i, crc, b, addr (*addr), log
ReadRomLoop(s, levels) ==
  IF s.i >= 8 THEN s
  ELSE Bind(read_byte(SubSeq(levels, 8 * s.i + 1, 8 * s.i + 8)), LAMBDA rb :
         ReadRomLoop([i |-> s.i + 1,
                      crc |-> IF s.i < 7 THEN crc8(s.crc, rb.result) ELSE s.crc,
                      b |-> rb.result, addr |-> U64Shl8Or(s.addr, rb.result),
                      log |-> s.log \o rb.log],
                     levels))

pico_1wire_read_rom(c, b) ==
  Bind(pico_1wire_reset_bus(c, b), LAMBDA r :
    IF ~r.device_found THEN Result(1, <<>>, r.log, c.psu_present, b.devs)
    ELSE Bind(r.log \o write_byte(CMD_READ), LAMBDA wlog :
         Bind(ReadRomLoop([i |-> 0, crc |-> 0, b |-> 0, addr |-> U64Zero, log |-> wlog],
                          RomLevels(b, WBytes(wlog))), LAMBDA l :
           Result(IF l.b # l.crc THEN 2 ELSE 0, <<l.addr>>, l.log, c.psu_present,
                  b.devs))))

\* variant: the result of match_rom not looked at
pico_1wire_read_power_supply_Unselected(c, b, addr, want) ==
  Bind(match_rom(c, b, addr), LAMBDA m :
    Bind(m.log \o write_byte(CMD_READ_POWER_SUPPLY), LAMBDA wlog :
    Bind(read_bit(PowerLevel(b, WBytes(wlog))), LAMBDA rb :
      Result(0, IF want THEN <<rb.result>> ELSE <<>>, wlog \o rb.log,
             rb.result, b.devs))))

\* want: present is not NULL
pico_1wire_read_power_supply(c, b, addr, want) ==
  Bind(match_rom(c, b, addr), LAMBDA m :
    IF m.ret # 0 THEN Result(1, <<>>, m.log, c.psu_present, b.devs)
    ELSE Bind(m.log \o write_byte(CMD_READ_POWER_SUPPLY), LAMBDA wlog :
         Bind(read_bit(PowerLevel(b, WBytes(wlog))), LAMBDA rb :
           Result(0, IF want THEN <<rb.result>> ELSE <<>>, wlog \o rb.log,
                  rb.result, b.devs))))

\* power_pin < 0: no MOSFET.  gives the context and the log of the initial probe
pico_1wire_init(power_pin, power_polarity, b) ==
  LET c0 == IF power_pin >= 0
            THEN [power_available |-> TRUE, power_state |-> power_polarity,
                  psu_present |-> TRUE]
            ELSE [power_available |-> FALSE, power_state |-> 0, psu_present |-> TRUE]
      off == power_mosfet_off(c0)
  IN Bind(pico_1wire_read_power_supply(c0, b, NULL_BUS_ADDRESS, FALSE), LAMBDA p :
       [ctx |-> [c0 EXCEPT !.psu_present = p.psu], log |-> off \o p.log])

RECURSIVE ScratchLoop(_, _)
\* the for loop of pico_1wire_read_scratch_pad; s: i, buf, crc, log
ScratchLoop(s, levels) ==
  IF s.i >= 9 THEN s
  ELSE Bind(read_byte(SubSeq(levels, 8 * s.i + 1, 8 * s.i + 8)), LAMBDA rb :
         ScratchLoop([i |-> s.i + 1, buf |-> Append(s.buf, rb.result),
                      crc |-> IF s.i < 9 - 1 THEN crc8(s.crc, rb.result) ELSE s.crc,
                      log |-> s.log \o rb.log],
                     levels))

\* out: buf[0..8] as a sequence, buf[i] being out[i + 1]
pico_1wire_read_scratch_pad(c, b, addr, glitch) ==
  Bind(match_rom(c, b, addr), LAMBDA m :
    IF m.ret # 0 THEN Result(1, <<>>, m.log, c.psu_present, b.devs)
    ELSE Bind(m.log \o write_byte(CMD_READ_SCRATCHPAD), LAMBDA wlog :
         Bind(ScratchLoop([i |-> 0, buf |-> <<>>, crc |-> 0, log |-> wlog],
                          ScratchpadLevels(b, WBytes(wlog), glitch)), LAMBDA l :
           Result(IF l.crc # l.buf[9] THEN 2 ELSE 0, l.buf, l.log, c.psu_present,
                  b.devs))))

\* buf: the 9 bytes of the caller's buffer, buf[i] in C being buf[i + 1]
pico_1wire_write_scratch_pad(c, b, addr, buf) ==
  Bind(match_rom(c, b, addr), LAMBDA m :
    IF m.ret # 0 THEN Result(1, <<>>, m.log, c.psu_present, b.devs)
    ELSE Bind(m.log \o write_byte(CMD_WRITE_SCRATCHPAD)
              \o write_byte(buf[3]) \o write_byte(buf[4])
              \o (IF ADDR_FAMILY_CODE(addr) # FAMILY_CODE_DS18S20
                  THEN write_byte(buf[5]) ELSE <<>>), LAMBDA log :
           Result(0, <<>>, log, c.psu_present, DevicesAfter(b.devs, WBytes(log)))))

\* variant: the DS18S20 among the cases with a configuration register
Configurable_WithDS18S20(addr) ==
  ADDR_FAMILY_CODE(addr) \in {FAMILY_CODE_DS18B20, FAMILY_CODE_DS1822,
                              FAMILY_CODE_DS1825, FAMILY_CODE_DS28EA00,
                              FAMILY_CODE_DS18S20}

\* the families with a configuration register
Configurable(addr) ==
  ADDR_FAMILY_CODE(addr) \in {FAMILY_CODE_DS18B20, FAMILY_CODE_DS1822,
                              FAMILY_CODE_DS1825, FAMILY_CODE_DS28EA00}

\* ((config & 0x7f) >> 5) + 9
ResolutionOf(config) == (And8(config, 127) \div 32) + 9

pico_1wire_convert_duration(c, b, addr, glitch) ==
  IF addr # NULL_BUS_ADDRESS /\ Configurable(addr)
  THEN Bind(pico_1wire_read_scratch_pad(c, b, addr, glitch), LAMBDA r :
         LET resolution == ResolutionOf(r.out[5])
             delay == IF r.ret # 0 THEN MAX_TEMP_CONVERSION_TIME
                      ELSE IF resolution = 9 THEN 95
                      ELSE IF resolution = 10 THEN 190
                      ELSE IF resolution = 11 THEN 375
                      ELSE MAX_TEMP_CONVERSION_TIME
         IN Result(0, <<delay>>, r.log, c.psu_present, b.devs))
  ELSE Result(0, <<MAX_TEMP_CONVERSION_TIME>>, <<>>, c.psu_present, b.devs)

\* variant: the strong pull-up switched on before the Convert command is sent
pico_1wire_convert_temperature_PowerFirst(c, b, addr, wait) ==
  Bind(match_rom(c, b, addr), LAMBDA m :
     IF m.ret # 0 THEN Result(1, <<>>, m.log, c.psu_present, b.devs)
     ELSE Result(0, <<>>,
                 m.log
                 \o (IF ~c.psu_present THEN power_mosfet_on(c) ELSE <<>>)
                 \o write_byte(CMD_CONVERT)
                 \o (IF wait
                     THEN <<Ev("sleep_ms", MAX_TEMP_CONVERSION_TIME)>>
                          \o (IF ~c.psu_present THEN power_mosfet_off(c) ELSE <<>>)
                     ELSE <<>>),
                 c.psu_present, b.devs))

pico_1wire_convert_temperature(c, b, addr, wait) ==
  Bind(match_rom(c, b, addr), LAMBDA m :
     IF m.ret # 0 THEN Result(1, <<>>, m.log, c.psu_present, b.devs)
     ELSE Result(0, <<>>,
                 m.log \o write_byte(CMD_CONVERT)
                 \o (IF ~c.psu_present THEN power_mosfet_on(c) ELSE <<>>)
                 \o (IF wait
                     THEN <<Ev("sleep_ms", MAX_TEMP_CONVERSION_TIME)>>
                          \o (IF ~c.psu_present THEN power_mosfet_off(c) ELSE <<>>)
                     ELSE <<>>),
                 c.psu_present, b.devs))

\* a / b of C on ints, b > 0: truncation towards zero
CDiv(a, b) == IF a >= 0 THEN a \div b ELSE -((-a) \div b)

\* variant: the sign of the 16 bit reading not extended
TempRead_Unsigned(scratch) == scratch[2] * 256 + scratch[1]

\* temp_read: (scratch[1] << 8) | scratch[0] as a signed 16 bit value
TempRead(scratch) ==
  LET t == scratch[2] * 256 + scratch[1]
  IN IF t >= 32768 THEN -((65535 - t) + 1) ELSE t

\* the temperature as the fraction num / den (den = 0: a division by zero)
Temperature(addr, scratch) ==
  LET temp_read == TempRead(scratch)
      count_remain == scratch[7]
      count_per_degree == scratch[8]
  IN IF ADDR_FAMILY_CODE(addr) = FAMILY_CODE_DS18S20
     THEN [num |-> 4 * count_per_degree * CDiv(temp_read, 2) - count_per_degree
                   + 4 * (count_per_degree - count_remain),
           den |-> 4 * count_per_degree]
     ELSE [num |-> temp_read, den |-> 16]

pico_1wire_get_temperature(c, b, addr, glitch) ==
  Bind(pico_1wire_read_scratch_pad(c, b, addr, glitch), LAMBDA r :
    IF r.ret # 0 THEN Result(1, <<>>, r.log, c.psu_present, b.devs)
    ELSE Result(IF Configurable(addr) \/ ADDR_FAMILY_CODE(addr) = FAMILY_CODE_DS18S20
                THEN 0 ELSE 2,
                <<Temperature(addr, r.out)>>, r.log, c.psu_present, b.devs))

pico_1wire_get_resolution(c, b, addr, glitch) ==
  IF addr = NULL_BUS_ADDRESS THEN Result(-1, <<>>, <<>>, c.psu_present, b.devs)
  ELSE Bind(pico_1wire_read_scratch_pad(c, b, addr, glitch), LAMBDA r :
         IF r.ret # 0 THEN Result(1, <<>>, r.log, c.psu_present, b.devs)
         ELSE IF Configurable(addr)
              THEN Result(0, <<ResolutionOf(r.out[5])>>, r.log, c.psu_present, b.devs)
         ELSE IF ADDR_FAMILY_CODE(addr) = FAMILY_CODE_DS18S20
              THEN Result(0, <<9>>, r.log, c.psu_present, b.devs)
         ELSE Result(2, <<0>>, r.log, c.psu_present, b.devs))

\* variant: the mask 0x1f, which also clears bit 7
NewConfig_Mask1f(config, resolution) ==
  Or8(And8(config, 31), ((resolution - 9) * 32) % 256)

\* (scratch[4] & 0x9f) | ((resolution - 9) << 5)
NewConfig(config, resolution) == Or8(And8(config, 159), ((resolution - 9) * 32) % 256)

pico_1wire_set_resolution(c, b, addr, resolution, glitch) ==
  IF addr = NULL_BUS_ADDRESS \/ resolution < 9 \/ resolution > 12
  THEN Result(-1, <<>>, <<>>, c.psu_present, b.devs)
  ELSE Bind(pico_1wire_read_scratch_pad(c, b, addr, glitch), LAMBDA r :
         IF r.ret # 0 THEN Result(1, <<>>, r.log, c.psu_present, b.devs)
         ELSE IF Configurable(addr)
              THEN LET scratch == [r.out EXCEPT ![5] = NewConfig(r.out[5], resolution)]
                   IN Bind(pico_1wire_write_scratch_pad(c, b, addr, scratch), LAMBDA w :
                        Result(IF w.ret # 0 THEN 2 ELSE 0, <<>>, r.log \o w.log,
                               c.psu_present, w.devs))
         ELSE Result(3, <<>>, r.log, c.psu_present, b.devs))

----------------------------------------------------------------------------
(* The state machine *)

\* the capacities a caller gives pico_1wire_search_rom: 1..MaxListSize
MaxListSize == 3

\* the power pins a caller gives pico_1wire_init: -1 (no MOSFET) or a GPIO
PowerPins == {-1, 15}

\* the bus as the functions see it
Bus == [devs |-> devices, pa |-> pulse_at]

\* the address of a device that is not on any of the buses
AbsentAddr == U64FromBytes(<<40, 1, 2, 3, 4, 5, 6, 33>>)

\* the addresses a caller passes: all devices, what the last search found, a stranger
CallerAddrs ==
  {NULL_BUS_ADDRESS, AbsentAddr} \cup {addr_list[i] : i \in 0..(devices_found - 1)}

\* the level the power pin is left at by a log
LastPower(level, log) ==
  Bind(SelectSeq(log, LAMBDA x : x.e = "pwr"), LAMBDA ps :
    IF ps = <<>> THEN level ELSE ps[Len(ps)].v)

Call(op, addr, arg, ret, out) ==
  [op |-> op, addr |-> addr, arg |-> arg, ret |-> ret, out |-> out]

search_vars ==
  <<pc, rom_addr, done, last_discrepancy, addr_list, addr_list_size, devices_found,
    overrun, find_calls>>

\* the direction the data pin is left in by a log: a write slot leaves it an
\* output, a read slot and a reset leave it an input
LastDir(dir, log) ==
  Bind(SelectSeq(log, LAMBDA x : x.e \in {"w", "r", "reset"}), LAMBDA ds :
    IF ds = <<>> THEN dir
    ELSE IF ds[Len(ds)].e = "w" THEN "out" ELSE "in")

\* a public function other than the search is called, nulls being the
\* pointer arguments that are NULL, and returns r
ReturnsNulls(op, addr, arg, r, nulls) ==
  /\ pc = "idle"
  /\ call.op = "none"
  /\ \E res \in {r} :
       /\ call' = Call(op, addr, arg, res.ret, res.out)
       /\ bus_log' = res.log
       /\ ctx' = [ctx EXCEPT !.psu_present = res.psu]
       /\ devices' = res.devs
       /\ power_level' = LastPower(power_level, res.log)
       /\ gpio_dir' = [gpio_dir EXCEPT !.data = LastDir(@, res.log)]
  /\ null_args' = nulls
  /\ UNCHANGED <<pulse_at, search_vars>>

\* a public function other than the search is called with valid pointers and
\* returns r
Returns(op, addr, arg, r) == ReturnsNulls(op, addr, arg, r, {})

\* the state after pico_1wire_init on one of the buses
Init ==
  \E devs \in Buses, pa \in PulseAts, power_pin \in PowerPins, polarity \in {0, 1} :
    \E i \in {pico_1wire_init(power_pin, polarity, [devs |-> devs, pa |-> pa])} :
       /\ devices = devs
       /\ pulse_at = pa
       /\ ctx = i.ctx
       /\ power_level = LastPower(0, i.log)
       /\ call = Call("init", NULL_BUS_ADDRESS, power_pin, 0, <<>>)
       /\ bus_log = i.log
       /\ pc = "idle"
       /\ rom_addr = U64Zero
       /\ done = FALSE
       /\ last_discrepancy = 0
       /\ addr_list = <<>>
       /\ addr_list_size = 0
       /\ devices_found = 0
       /\ overrun = FALSE
       /\ find_calls = 0
       /\ gpio_dir = [data |-> LastDir("in", i.log),
                      power |-> IF power_pin >= 0 THEN "out" ELSE "unset"]
       /\ null_args = {}

ResetBus ==
  Returns("reset_bus", NULL_BUS_ADDRESS, 0,
          Bind(pico_1wire_reset_bus(ctx, Bus), LAMBDA r :
            Result(IF r.device_found THEN 1 ELSE 0, <<>>, r.log, ctx.psu_present,
                   devices)))

ReadRom ==
  Returns("read_rom", NULL_BUS_ADDRESS, 0, pico_1wire_read_rom(ctx, Bus))

ReadPowerSupply ==
  \E addr \in CallerAddrs, want \in BOOLEAN :
    Returns("read_power_supply", addr, IF want THEN 1 ELSE 0,
            pico_1wire_read_power_supply(ctx, Bus, addr, want))

\* pico_1wire_search_rom, past its argument check, up to its while loop
SearchRomStart(size) ==
  /\ pc = "idle"
  /\ call.op = "none"
  /\ \E r \in {pico_1wire_reset_bus(ctx, Bus)} :
     /\ devices_found' = 0
     /\ addr_list' = [i \in 0..(size - 1) |-> U64Zero]
     /\ addr_list_size' = size
     /\ overrun' = FALSE
     /\ rom_addr' = U64Zero
     /\ done' = FALSE
     /\ last_discrepancy' = 0
     /\ bus_log' = r.log
     /\ power_level' = LastPower(power_level, r.log)
     /\ call' = Call("search_rom", NULL_BUS_ADDRESS, size,
                     IF r.device_found THEN 0 ELSE 1, <<>>)
     /\ pc' = IF r.device_found THEN "search" ELSE "idle"
     /\ find_calls' = 0
     /\ gpio_dir' = [gpio_dir EXCEPT !.data = LastDir(@, r.log)]
     /\ null_args' = {}
     /\ UNCHANGED <<devices, pulse_at, ctx>>

\* pico_1wire_search_rom called with valid arguments
SearchRomCall == \E size \in 1..MaxListSize : SearchRomStart(size)

\* one turn of the while loop of pico_1wire_search_rom, or its return
SearchRomLoop ==
  /\ pc = "search"
  /\ \E it \in {search_rom_iteration(ctx, Bus, rom_addr, done, last_discrepancy,
                                    addr_list, addr_list_size, devices_found)} :
     /\ rom_addr' = it.rom_addr
     /\ done' = it.done
     /\ last_discrepancy' = it.last_discrepancy
     /\ addr_list' = it.list
     /\ devices_found' = it.found
     /\ overrun' = (overrun \/ it.overrun)
     /\ bus_log' = bus_log \o it.log
     /\ power_level' = LastPower(power_level, it.log)
     /\ call' = [call EXCEPT !.ret = it.ret]
     /\ pc' = IF it.returned THEN "idle" ELSE "search"
     /\ find_calls' = find_calls + 1
     /\ gpio_dir' = [gpio_dir EXCEPT !.data = LastDir(@, it.log)]
     /\ UNCHANGED <<devices, pulse_at, ctx, addr_list_size, null_args>>

\* the caller has taken the results of the call that returned
Consume ==
  /\ pc = "idle"
  /\ call.op # "none"
  /\ call' = Call("none", NULL_BUS_ADDRESS, 0, 0, <<>>)
  /\ bus_log' = <<>>
  /\ null_args' = {}
  /\ UNCHANGED <<devices, pulse_at, ctx, power_level, search_vars, gpio_dir>>

NextEnum ==
  \/ Consume
  \/ ResetBus
  \/ ReadRom
  \/ ReadPowerSupply
  \/ SearchRomCall
  \/ SearchRomLoop

\* resets, Read ROM, the ROM search and the power supply query
SpecEnum == Init /\ [][NextEnum]_vars

NextSearch ==
  \/ Consume
  \/ SearchRomCall
  \/ SearchRomLoop

\* pico_1wire_search_rom alone, its while loop going on to its end
SpecSearchFair == Init /\ [][NextSearch]_vars /\ WF_find_calls(SearchRomLoop)

\* the addresses a caller that knows the bus passes: all devices, each device, a stranger
DeviceAddrs == {NULL_BUS_ADDRESS, AbsentAddr} \cup {DevAddr(d) : d \in devices}

\* the resolutions a caller asks for
Resolutions == 9..12

ReadScratchPad ==
  \E addr \in DeviceAddrs, glitch \in Glitches :
    Returns("read_scratch_pad", addr, 0,
            pico_1wire_read_scratch_pad(ctx, Bus, addr, glitch))

ConvertDuration ==
  \E addr \in DeviceAddrs, glitch \in Glitches :
    Returns("convert_duration", addr, 0,
            pico_1wire_convert_duration(ctx, Bus, addr, glitch))

ConvertTemperature ==
  \E addr \in DeviceAddrs, wait \in BOOLEAN :
    Returns("convert_temperature", addr, IF wait THEN 1 ELSE 0,
            pico_1wire_convert_temperature(ctx, Bus, addr, wait))

GetTemperature ==
  \E addr \in DeviceAddrs, glitch \in Glitches :
    Returns("get_temperature", addr, 0,
            pico_1wire_get_temperature(ctx, Bus, addr, glitch))

GetResolution ==
  \E addr \in DeviceAddrs \ {NULL_BUS_ADDRESS}, glitch \in Glitches :
    Returns("get_resolution", addr, 0,
            pico_1wire_get_resolution(ctx, Bus, addr, glitch))

SetResolution ==
  \E addr \in DeviceAddrs \ {NULL_BUS_ADDRESS}, resolution \in Resolutions,
     glitch \in Glitches :
    Returns("set_resolution", addr, resolution,
            pico_1wire_set_resolution(ctx, Bus, addr, resolution, glitch))

NextSensor ==
  \/ Consume
  \/ ReadScratchPad
  \/ ConvertDuration
  \/ ConvertTemperature
  \/ GetTemperature
  \/ GetResolution
  \/ SetResolution

\* the temperature sensor functions
SpecSensor == Init /\ [][NextSensor]_vars

Next == NextEnum \/ NextSensor

\* the whole library
Spec == Init /\ [][Next]_vars

----------------------------------------------------------------------------
(* Further specifications: the same functions on other buses *)

\* the state after pico_1wire_init(data_pin, power_pin, polarity) on the bus
\* of the devices devs
InitOn(devs, pa, power_pin, polarity) ==
  \E i \in {pico_1wire_init(power_pin, polarity, [devs |-> devs, pa |-> pa])} :
     /\ devices = devs
     /\ pulse_at = pa
     /\ ctx = i.ctx
     /\ power_level = LastPower(0, i.log)
     /\ call = Call("init", NULL_BUS_ADDRESS, power_pin, 0, <<>>)
     /\ bus_log = i.log
     /\ pc = "idle"
     /\ rom_addr = U64Zero
     /\ done = FALSE
     /\ last_discrepancy = 0
     /\ addr_list = <<>>
     /\ addr_list_size = 0
     /\ devices_found = 0
     /\ overrun = FALSE
     /\ find_calls = 0
     /\ gpio_dir = [data |-> LastDir("in", i.log),
                    power |-> IF power_pin >= 0 THEN "out" ELSE "unset"]
     /\ null_args = {}

\* environment: a device of a family with the ROM code of the serial number
\* and the CRC the factory gives it
DeviceOf(family, serial, parasitic, sp) ==
  Device(<<family>> \o serial \o <<DevCrc(0, <<family>> \o serial)>>, parasitic, FALSE, sp)

\* environment: the alarm registers T(H), T(L) of the devices of ConfigBuses
AlarmRegisters == {<<75, 70>>, <<0, 255>>}

\* environment: the buses of one DS18B20 whose configuration register reads as
\* any byte
ConfigBuses ==
  {{DeviceOf(40, <<255, 100, 30, 15, 43, 60>>, FALSE,
             <<80, 5, t[1], t[2], c, 255, 12, 16>>)} :
     c \in 0..255, t \in AlarmRegisters}

InitConfig == \E devs \in ConfigBuses : InitOn(devs, 0, -1, 0)

NextConfig ==
  \/ Consume
  \/ GetResolution
  \/ SetResolution

\* the resolution functions on one device with any configuration byte
SpecConfig == InitConfig /\ [][NextConfig]_vars

----------------------------------------------------------------------------
(* The public functions called with any arguments, and the teardown *)

\* pico_1wire_destroy: the directions of the pins on return (the context is freed)
pico_1wire_destroy(c, dir) ==
  LET d1 == [dir EXCEPT !.data = "in"]
  IN IF c.power_available THEN [d1 EXCEPT !.data = "in"] ELSE d1

\* the functions that take a pointer to write their result to, or a buffer
OutPointerOps ==
  {"read_rom", "read_power_supply", "read_scratch_pad", "write_scratch_pad",
   "convert_duration", "get_temperature", "get_resolution"}

\* the pointer arguments of a function: the context, and the output or buffer
PointerArgs(op) == IF op \in OutPointerOps THEN {"ctx", "out"} ELSE {"ctx"}

\* the pointer arguments that the first if of a function tests:
\* pico_1wire_read_power_supply takes a NULL present
CheckedPointers(op) ==
  IF op \in OutPointerOps \ {"read_power_supply"} THEN {"ctx", "out"} ELSE {"ctx"}

\* the buffer a caller of pico_1wire_write_scratch_pad passes
CallerBuf == <<0, 0, 75, 70, 31, 0, 0, 0, 0>>

\* a public function other than the search and the teardown, called with the
\* pointers of nulls NULL
PublicCall(op, c, b, addr, arg, nulls) ==
  IF nulls \cap CheckedPointers(op) # {}
  THEN Result(IF op = "reset_bus" THEN 0 ELSE -1, <<>>, <<>>, c.psu_present, b.devs)
  ELSE CASE op = "reset_bus" ->
              Bind(pico_1wire_reset_bus(c, b), LAMBDA r :
                Result(IF r.device_found THEN 1 ELSE 0, <<>>, r.log, c.psu_present,
                       b.devs))
         [] op = "read_rom" -> pico_1wire_read_rom(c, b)
         [] op = "read_power_supply" ->
              pico_1wire_read_power_supply(c, b, addr, "out" \notin nulls)
         [] op = "read_scratch_pad" -> pico_1wire_read_scratch_pad(c, b, addr, 0)
         [] op = "write_scratch_pad" ->
              pico_1wire_write_scratch_pad(c, b, addr, CallerBuf)
         [] op = "convert_duration" -> pico_1wire_convert_duration(c, b, addr, 0)
         [] op = "convert_temperature" ->
              pico_1wire_convert_temperature(c, b, addr, arg # 0)
         [] op = "get_temperature" -> pico_1wire_get_temperature(c, b, addr, 0)
         [] op = "get_resolution" -> pico_1wire_get_resolution(c, b, addr, 0)
         [] op = "set_resolution" -> pico_1wire_set_resolution(c, b, addr, arg, 0)

\* variant: the test addr_list_size < 1 left out
search_rom_invalid_NoSize(nulls, size) == nulls # {}

\* the first if of pico_1wire_search_rom; nulls: ctx, or addr_list or devices_found
search_rom_invalid(nulls, size) == nulls # {} \/ size < 1

ApiOps ==
  {"reset_bus", "read_rom", "read_power_supply", "read_scratch_pad",
   "write_scratch_pad", "convert_duration", "convert_temperature",
   "get_temperature", "get_resolution", "set_resolution"}

\* the functions with a parameter addr
AddrOps == ApiOps \ {"reset_bus", "read_rom"}

\* the addresses a caller passes: none, or that of a device of the bus
ApiAddrs == {NULL_BUS_ADDRESS} \cup {DevAddr(d) : d \in devices}

\* the value a caller passes: a resolution, or wait
ArgsOf(op) ==
  IF op = "set_resolution" THEN {8, 9, 13}
  ELSE IF op = "convert_temperature" THEN {0, 1}
  ELSE {0}

ApiCall ==
  /\ pc = "idle"
  /\ call.op = "none"
  /\ \E addr \in ApiAddrs, op \in ApiOps :
       \E arg \in ArgsOf(op), nulls \in SUBSET PointerArgs(op) :
         /\ ~(op \notin AddrOps /\ addr # NULL_BUS_ADDRESS)
         /\ ReturnsNulls(op, addr, arg, PublicCall(op, ctx, Bus, addr, arg, nulls),
                         nulls)

SearchRomApi ==
  \E size \in {0, 1, MaxListSize}, nulls \in SUBSET {"ctx", "out"} :
    IF search_rom_invalid(nulls, size)
    THEN ReturnsNulls("search_rom", NULL_BUS_ADDRESS, size,
                      Result(-1, <<>>, <<>>, ctx.psu_present, devices), nulls)
    ELSE SearchRomStart(size)

Destroy ==
  /\ pc = "idle"
  /\ call.op = "none"
  /\ gpio_dir' = pico_1wire_destroy(ctx, gpio_dir)
  /\ pc' = "destroyed"
  /\ call' = Call("destroy", NULL_BUS_ADDRESS, 0, 0, <<>>)
  /\ bus_log' = <<>>
  /\ null_args' = {}
  /\ UNCHANGED <<devices, pulse_at, ctx, power_level, rom_addr, done, last_discrepancy,
                 addr_list, addr_list_size, devices_found, overrun, find_calls>>

\* environment: an empty bus, and a bus of a DS18B20, a DS18S20 and a device
\* of a family the library does not handle
ApiBuses == {{}, {DevA, DevC, DevD}}

InitApi ==
  \E devs \in ApiBuses, power_pin \in PowerPins : InitOn(devs, 0, power_pin, 1)

NextApi ==
  \/ Consume
  \/ ApiCall
  \/ SearchRomApi
  \/ SearchRomLoop
  \/ Destroy

\* every public function, with valid and invalid arguments
SpecApi == InitApi /\ [][NextApi]_vars

----------------------------------------------------------------------------
(* Temperature readings *)

\* environment: the families with the 12 bit temperature format
StandardFamilies == {34, 40, 59, 66}

\* environment: the temperature registers (low byte, high byte) of the
\* devices: every low byte with some high bytes, every high byte with some
\* low bytes
TempRegisters ==
  {<<lo, hi>> : lo \in 0..255, hi \in {0, 5, 127, 128, 248, 255}}
  \cup {<<lo, hi>> : lo \in {0, 80, 255}, hi \in 0..255}

\* environment: the buses of one device of a standard family
TempBuses ==
  {{DeviceOf(f, <<1, 2, 3, 4, 5, 6>>, FALSE, <<t[1], t[2], 75, 70, 127, 255, 12, 16>>)} :
     f \in StandardFamilies, t \in TempRegisters}

InitTemp == \E devs \in TempBuses : InitOn(devs, 0, -1, 0)

\* pico_1wire_get_temperature of a device on the bus, read without error
GetTemperatureOf ==
  \E d \in devices :
    Returns("get_temperature", DevAddr(d), 0,
            pico_1wire_get_temperature(ctx, Bus, DevAddr(d), 0))

NextTemp ==
  \/ Consume
  \/ GetTemperatureOf

\* the temperature of one device of a standard family
SpecTemp == InitTemp /\ [][NextTemp]_vars

----------------------------------------------------------------------------
(* ROM codes with one bit in error *)

\* environment: the device d with bit k (1..64, in the order emitted) of its
\* ROM code inverted; k = 0: the device as it is
FlipBit(d, k) == IF k = 0 THEN d ELSE [d EXCEPT !.rom[k] = 1 - @]

\* environment: buses of one device, its ROM code that of a device of the
\* pool as it is or with one bit inverted
CrcBuses == {{FlipBit(DevicePool[n], k)} : n \in 1..Len(DevicePool), k \in 0..64}

InitCrc == \E devs \in CrcBuses : InitOn(devs, 0, -1, 1)

NextCrc ==
  \/ Consume
  \/ ReadRom
  \/ SearchRomCall
  \/ SearchRomLoop

SpecCrc == InitCrc /\ [][NextCrc]_vars

----------------------------------------------------------------------------
(* find_next_device called on a search state, as the loop of                *)
(* pico_1wire_search_rom calls it, for as long as the caller likes.         *)
(* pc is "find" from the initialisation of the state on, and "exhausted"     *)
(* once a pass has set done.                                                 *)

\* the calls of find_next_device made on one search state: at most MaxFindCalls
MaxFindCalls == 6

\* bool done = false; uint last_discrepancy = 0; uint64_t rom_addr = 0
FindFresh ==
  /\ rom_addr' = U64Zero
  /\ done' = FALSE
  /\ last_discrepancy' = 0
  /\ find_calls' = 0
  /\ pc' = "find"
  /\ call' = Call("search_state", NULL_BUS_ADDRESS, 0, 0, <<>>)
  /\ bus_log' = <<>>
  /\ UNCHANGED <<devices, pulse_at, ctx, power_level, addr_list, addr_list_size,
                 devices_found, overrun, gpio_dir, null_args>>

\* find_next_device(ctx, &rom_addr, &done, &last_discrepancy)
FindNext ==
  /\ pc \in {"find", "exhausted"}
  /\ find_calls < MaxFindCalls
  /\ \E f \in {find_next_device(ctx, Bus, rom_addr, done, last_discrepancy)} :
       /\ rom_addr' = f.addr
       /\ done' = f.done
       /\ last_discrepancy' = f.last_discrepancy
       /\ pc' = IF f.done THEN "exhausted" ELSE pc
       /\ call' = Call("find_next_device", NULL_BUS_ADDRESS, 0,
                       IF f.result THEN 1 ELSE 0, <<>>)
       /\ bus_log' = f.log
       /\ power_level' = LastPower(power_level, f.log)
       /\ gpio_dir' = [gpio_dir EXCEPT !.data = LastDir(@, f.log)]
  /\ find_calls' = find_calls + 1
  /\ UNCHANGED <<devices, pulse_at, ctx, addr_list, addr_list_size, devices_found,
                 overrun, null_args>>

NextFind ==
  \/ FindFresh
  \/ FindNext

SpecFind == Init /\ [][NextFind]_vars

----------------------------------------------------------------------------
(* Buses on which one device answers the search with a ROM code in error *)

\* environment: the buses of two devices and more, one of their devices with
\* one bit of its ROM code inverted
BadCrcBuses ==
  UNION {{{IF i = n THEN FlipBit(DevicePool[i], k) ELSE DevicePool[i] : i \in 1..m} :
            n \in 1..m, k \in 1..64} : m \in 2..MaxDevices}

InitBadCrc == \E devs \in BadCrcBuses : InitOn(devs, 0, -1, 1)

NextBadCrc ==
  \/ Consume
  \/ SearchRomCall
  \/ SearchRomLoop

SpecBadCrc == InitBadCrc /\ [][NextBadCrc]_vars

----------------------------------------------------------------------------
(* The reset pulse, with the presence pulse beginning at any sample or never *)

\* environment: the sample of the reset at which a device begins to hold the
\* line low; from 25 on no sample of the reset sees it
MaxPulseAt == 26

InitReset ==
  \E devs \in Buses, pa \in 0..MaxPulseAt, power_pin \in PowerPins :
    InitOn(devs, pa, power_pin, 1)

\* pico_1wire_reset_bus(ctx), its sleeps and samples kept with the result: the
\* argument of the first sleep_us, the calls of gpio_get, the time slept from
\* the release of the line to the end of the loop, the argument of the last
\* sleep_us
ResetBusTimes ==
  Returns("reset_bus_times", NULL_BUS_ADDRESS, 0,
          Bind(pico_1wire_reset_bus(ctx, Bus), LAMBDA r :
            Result(IF r.device_found THEN 1 ELSE 0,
                   <<r.tx_sleep, r.samples, r.slept, r.rx_sleep>>, r.log,
                   ctx.psu_present, devices)))

NextReset ==
  \/ Consume
  \/ ResetBusTimes

SpecReset == InitReset /\ [][NextReset]_vars

----------------------------------------------------------------------------
(* Temperature readings of the DS18S20 *)

\* environment: COUNT REMAIN and COUNT PER C of the scratchpad of a DS18S20
\* (count_per_degree is 16 in the device; other values above 0 are read as well)
CountRegisters == {<<12, 16>>, <<4, 16>>, <<0, 1>>, <<16, 16>>}

\* environment: buses of one DS18S20, its temperature and count registers any
\* of TempRegisters and CountRegisters
LegacyBuses ==
  {{DeviceOf(FAMILY_CODE_DS18S20, <<1, 2, 3, 4, 5, 6>>, FALSE,
             <<t[1], t[2], 75, 70, 255, 255, n[1], n[2]>>)} :
     t \in TempRegisters, n \in CountRegisters}

InitLegacy == \E devs \in LegacyBuses : InitOn(devs, 0, -1, 0)

NextLegacy ==
  \/ Consume
  \/ GetTemperatureOf

\* the temperature of one DS18S20
SpecLegacy == InitLegacy /\ [][NextLegacy]_vars

----------------------------------------------------------------------------
(* A bus that answers 0 in every slot of a ROM code *)

\* environment: a responder that holds the line low in the presence window and
\* in every slot in which a ROM code bit is sent, as a data line stuck low does
\* through a Read ROM
DevLow == Device(<<0, 0, 0, 0, 0, 0, 0, 0>>, FALSE, FALSE, <<0, 0, 0, 0, 0, 0, 0, 0>>)

\* environment: the responder alone and beside the devices of each bus
LowBuses == {devs \cup {DevLow} : devs \in Buses}

InitLow ==
  \E devs \in LowBuses, pa \in PulseAts, power_pin \in PowerPins :
    InitOn(devs, pa, power_pin, 1)

\* pico_1wire_read_rom and pico_1wire_search_rom on such a bus
SpecLow == InitLow /\ [][NextCrc]_vars

----------------------------------------------------------------------------
(* Properties *)

\* whether a device's ROM code carries the CRC of its first 7 bytes
RomValid(d) ==
  LET bs == BitsToBytes(d.rom) IN DevCrc(0, SubSeq(bs, 1, 7)) = bs[8]

\* a bus of devices with CRC-valid ROM codes (pairwise distinct: devices is a set)
ValidBus == \A d \in devices : RomValid(d)

\* the addresses of the devices on the bus
BusAddrs == {DevAddr(d) : d \in devices}

\* the entries of addr_list that the search has counted
Found == {addr_list[i] : i \in 0..(devices_found - 1)}

\* the call named op has returned
Returned(op) == pc = "idle" /\ call.op = op

\* whether the first reset of the log saw a presence pulse
Presence(log) ==
  LET rs == SelectSeq(log, LAMBDA x : x.e = "reset")
  IN rs # <<>> /\ rs[1].v = 1

\* C1: on a static bus of N >= 1 devices with distinct CRC-valid ROM codes, a
\* search given a list of at least N entries returns 0 with *devices_found = N
\* and the list holding exactly the N device addresses, each once; as this
\* holds of every search that returns, a repeated search returns the same set.
C1_SearchFindsAll ==
  (Returned("search_rom") /\ devices # {} /\ ValidBus
   /\ addr_list_size >= Cardinality(devices))
  => /\ call.ret = 0
     /\ devices_found = Cardinality(devices)
     /\ Found = BusAddrs
     /\ \A i, j \in 0..(devices_found - 1) : addr_list[i] = addr_list[j] => i = j

C1_Witness ==
  /\ Returned("search_rom")
  /\ Cardinality(devices) = 3
  /\ addr_list_size = 3
  /\ devices_found = 3
  /\ call.ret = 0

\* C2: with a list of capacity C, 1 <= C < N, the search returns 2 with
\* *devices_found = C and C distinct device addresses in the list; in every
\* state *devices_found <= C and the list is never written outside 0..C-1.
C2_CapacityExceeded ==
  /\ ~overrun
  /\ devices_found <= addr_list_size
  /\ DOMAIN addr_list = 0..(addr_list_size - 1)
  /\ (Returned("search_rom") /\ ValidBus /\ addr_list_size < Cardinality(devices))
     => /\ call.ret = 2
        /\ devices_found = addr_list_size
        /\ Found \subseteq BusAddrs
        /\ Cardinality(Found) = addr_list_size

C2_Witness ==
  /\ Returned("search_rom")
  /\ Cardinality(devices) = 3
  /\ addr_list_size = 2
  /\ devices_found = 2
  /\ call.ret = 2

\* C3: on a bus on which no device answers a reset, pico_1wire_reset_bus
\* returns false, and pico_1wire_search_rom and pico_1wire_read_rom return 1
\* at once (no slot is issued), the search with *devices_found = 0.
C3_EmptyBus ==
  (devices = {} /\ call.op \in {"reset_bus", "search_rom", "read_rom"})
  => /\ pc = "idle"
     /\ call.op = "reset_bus" => call.ret = 0
     /\ call.op = "search_rom" => call.ret = 1 /\ devices_found = 0
     /\ call.op = "read_rom" => call.ret = 1 /\ call.out = <<>>
     /\ \A k \in 1..Len(bus_log) : bus_log[k].e \notin {"w", "r"}

C3_Witness ==
  devices = {} /\ Returned("search_rom") /\ call.ret = 1 /\ devices_found = 0

\* C5: pico_1wire_read_rom, after a reset that saw a presence pulse, returns 0
\* exactly when the 8th byte read is the CRC-8 (seed 0) of the first 7 bytes
\* read, and 2 otherwise.
C5_ReadRomChecksum ==
  (Returned("read_rom") /\ Presence(bus_log))
  => LET bs == BitsToBytes(RBits(bus_log))
         good == Len(bs) = 8 /\ bs[8] = DevCrc(0, SubSeq(bs, 1, 7))
     IN /\ call.ret \in {0, 2}
        /\ call.ret = 0 <=> good
        /\ call.out = <<U64FromBytes(bs)>>

\* several devices answer at once and their bits collide
C5_Witness ==
  /\ Returned("read_rom")
  /\ Cardinality(devices) >= 2
  /\ call.ret = 2
  /\ Len(RBits(bus_log)) = 64

\* a single device answers
C5_WitnessSingle ==
  Returned("read_rom") /\ Cardinality(devices) = 1 /\ call.ret = 0


\* the operations that read the scratchpad
ScratchOps ==
  {"read_scratch_pad", "get_temperature", "get_resolution", "set_resolution",
   "convert_duration"}

\* the 9 scratchpad bytes read in the log, when 9 were read
ScratchRead(log) == BitsToBytes(SubSeq(RBits(log), 1, 72))

\* whether the 9th scratchpad byte read differs from the CRC-8 of the first 8
Corrupted(log) ==
  /\ Len(RBits(log)) >= 72
  /\ ScratchRead(log)[9] # DevCrc(0, SubSeq(ScratchRead(log), 1, 8))

\* C4: when the 9th scratchpad byte read differs from the CRC-8 of the first
\* 8, pico_1wire_read_scratch_pad and every operation that depends on it
\* (get_temperature, get_resolution, set_resolution, convert_duration) return
\* the checksum status 2, never success, and give no output value.
C4_ChecksumMismatchReported ==
  (call.op \in ScratchOps /\ Corrupted(bus_log))
  => /\ call.ret = 2
     /\ call.op # "read_scratch_pad" => call.out = <<>>

\* the bytes that select the devices at addr: Skip ROM, or Match ROM and the 8
\* bytes of addr from the most significant down
SelectBytes(addr) ==
  IF addr = U64Zero THEN <<204>>
  ELSE <<85>> \o [k \in 1..8 |-> BitsToByte(SubSeq(addr, 65 - 8 * k, 72 - 8 * k))]

\* C6: after a reset that sees a presence pulse, the bytes written before the
\* function command are the one byte Skip ROM (0xCC) for address 0, and Match
\* ROM (0x55) with the 8 address bytes for any other address; after a reset
\* that sees none the call fails with 1 and no slot is issued.
C6_AddressSelection ==
  call.op \in {"read_scratch_pad", "convert_temperature"}
  => LET fn == IF call.op = "read_scratch_pad" THEN 190 ELSE 68
     IN IF Presence(bus_log)
        THEN /\ call.ret # 1
             /\ WBytes(bus_log) = SelectBytes(call.addr) \o <<fn>>
        ELSE /\ call.ret = 1
             /\ \A k \in 1..Len(bus_log) : bus_log[k].e \notin {"w", "r"}

C6_Witness ==
  /\ call.op = "convert_temperature"
  /\ call.addr # U64Zero
  /\ Presence(bus_log)
  /\ Len(WBytes(bus_log)) = 10

\* address 0: Skip ROM
C6_WitnessSkip ==
  /\ call.op = "convert_temperature"
  /\ call.addr = U64Zero
  /\ Presence(bus_log)
  /\ Len(WBytes(bus_log)) = 2

\* C7: an address that pico_1wire_search_rom stored is the ROM code of a
\* device in display order (family code in the top byte), and match_rom sends
\* it after Match ROM as the 64 bits that device sent in the search (family
\* code byte first, each byte least significant bit first).
C7_SearchMatchRoundTrip ==
  (Returned("read_power_supply") /\ call.addr \in Found /\ Presence(bus_log))
  => \E d \in devices :
       /\ call.addr = DevAddr(d)
       /\ ADDR_FAMILY_CODE(call.addr) = DevFamily(d)
       /\ SubSeq(WBits(bus_log), 9, 72) = d.rom

C7_Witness ==
  /\ Returned("read_power_supply")
  /\ call.addr \in Found
  /\ Cardinality(devices) >= 2
  /\ Len(WBits(bus_log)) = 80
  /\ call.ret = 0

\* C8: on a bus with devices (the query in pico_1wire_init succeeded),
\* ctx->psu_present is true only if every device has its own power, also after
\* a power supply query addressed to one device.
C8_PsuPresentAllPowered ==
  devices # {} => (ctx.psu_present <=> \A d \in devices : ~d.parasitic)

\* the positions of the log at which e happens with value v
At(e, v) == {k \in 1..Len(bus_log) : bus_log[k] = Ev(e, v)}

\* the position of the last write slot of the log
LastWrite ==
  CHOOSE k \in 1..Len(bus_log) :
    /\ bus_log[k].e = "w"
    /\ \A j \in (k + 1)..Len(bus_log) : bus_log[j].e # "w"

\* C9: in a pico_1wire_convert_temperature that returns 0 with psu_present
\* false and a power pin configured, the power pin is set active once, right
\* after the Convert byte 0x44 is written; with wait it is set inactive after
\* the 750 ms sleep and before the return, and without wait it is left active.
\* With psu_present true or no power pin the call never sets the pin active.
C9_StrongPullUp ==
  call.op = "convert_temperature"
  => LET active == ctx.power_state
         n == Len(bus_log)
     IN IF ~ctx.psu_present /\ ctx.power_available /\ call.ret = 0
        THEN /\ WBytes(bus_log)[Len(WBytes(bus_log))] = 68
             /\ At("pwr", active) = {LastWrite + 1}
             /\ IF call.arg = 1
                THEN /\ n = LastWrite + 3
                     /\ bus_log[n - 1] = Ev("sleep_ms", 750)
                     /\ bus_log[n] = Ev("pwr", 1 - active)
                     /\ power_level = 1 - active
                ELSE /\ n = LastWrite + 1
                     /\ power_level = active
        ELSE /\ ctx.power_available => At("pwr", ctx.power_state) = {}
             /\ ~ctx.power_available => \A k \in 1..n : bus_log[k].e # "pwr"

C9_Witness ==
  /\ call.op = "convert_temperature"
  /\ call.arg = 1
  /\ call.ret = 0
  /\ ~ctx.psu_present
  /\ ctx.power_available
  /\ At("sleep_ms", 750) # {}

\* C10: pico_1wire_set_resolution returns 0 only when the device addressed
\* holds the new resolution in its configuration register after the call.
C10_SetResolutionVerified ==
  (call.op = "set_resolution" /\ call.ret = 0)
  => \A d \in devices :
       DevAddr(d) = call.addr => ((d.sp[5] \div 32) % 4) + 9 = call.arg


\* C11: the configuration byte that pico_1wire_set_resolution writes for the
\* resolution r, from the configuration byte c it read, decodes by the formula
\* of pico_1wire_get_resolution to r and has the bits of c outside bits 5 and
\* 6; T(H) and T(L) are written as they were read.
C11_ConfigRoundTrip ==
  (call.op = "set_resolution" /\ call.ret = 0)
  => LET rd == ScratchRead(bus_log)
         wb == WBytes(bus_log)
     IN /\ Len(wb) = 23
        /\ wb[20] = 78
        /\ ResolutionOf(wb[23]) = call.arg
        /\ ((wb[23] \div 32) % 4) + 9 = call.arg
        /\ \A i \in {0, 1, 2, 3, 4, 7} : Bit(wb[23], i) = Bit(rd[5], i)
        /\ wb[21] = rd[3]
        /\ wb[22] = rd[4]

\* a configuration byte with bit 7 and bits 5 and 6 set, rewritten for 9 bits
C11_Witness ==
  /\ call.op = "set_resolution"
  /\ call.ret = 0
  /\ call.arg = 9
  /\ ScratchRead(bus_log)[5] = 255
  /\ WBytes(bus_log)[23] = 159


\* C12: after pico_1wire_destroy the data pin is an input; the power pin is an
\* input too when the context had one, and is untouched (never initialised)
\* when it had none; the context is released.
C12_DestroyReleasesPins ==
  pc = "destroyed"
  => /\ call.op = "destroy"
     /\ gpio_dir.data = "in"
     /\ ctx.power_available => gpio_dir.power = "in"
     /\ ~ctx.power_available => gpio_dir.power = "unset"

\* the functions that return a status code
StatusOps ==
  {"read_rom", "search_rom", "read_power_supply", "read_scratch_pad",
   "write_scratch_pad", "convert_duration", "convert_temperature",
   "get_temperature", "get_resolution", "set_resolution"}

\* the arguments of the call are invalid: a NULL context, a NULL pointer where
\* an output or buffer is required, a list of size 0, a resolution outside
\* 9..12, or the address 0 where a resolution is read or set
InvalidArguments ==
  /\ call.op \in StatusOps
  /\ \/ "ctx" \in null_args
     \/ /\ "out" \in null_args
        /\ call.op \in {"read_rom", "search_rom", "read_scratch_pad", "write_scratch_pad",
                        "convert_duration", "get_temperature", "get_resolution"}
     \/ call.op = "search_rom" /\ call.arg = 0
     \/ call.op = "set_resolution" /\ call.arg \notin 9..12
     \/ call.op \in {"get_resolution", "set_resolution"} /\ call.addr = U64Zero

\* C13: a function that returns a status code, called with invalid arguments,
\* returns -1 at once: no slot, reset or sleep happens, the power pin and the
\* pin directions stay as they were, ctx->psu_present and the devices are
\* unchanged, and no output (value, list entry, *devices_found) is written.
C13_InvalidArguments ==
  [][(call.op = "none" /\ InvalidArguments')
     => /\ call'.ret = -1
        /\ call'.out = <<>>
        /\ bus_log' = <<>>
        /\ pc' = "idle"
        /\ UNCHANGED <<ctx, power_level, gpio_dir, devices, addr_list, addr_list_size,
                       devices_found>>]_vars

\* a list of size 0 given to the search on a bus with devices
C13_Witness ==
  /\ call.op = "search_rom"
  /\ call.arg = 0
  /\ null_args = {}
  /\ devices # {}
  /\ call.ret = -1

\* the address 0 given to pico_1wire_set_resolution
C13_WitnessAddr ==
  /\ call.op = "set_resolution"
  /\ call.addr = U64Zero
  /\ call.arg = 9
  /\ null_args = {}
  /\ call.ret = -1


\* the 16 bit two's complement value of the bytes lo and hi
Signed16(lo, hi) == IF hi >= 128 THEN hi * 256 + lo - 65536 ELSE hi * 256 + lo

\* C14: for a device of a standard family (0x22, 0x28, 0x3B, 0x42) whose
\* scratchpad is read with a valid CRC, pico_1wire_get_temperature returns 0
\* and the temperature raw / 16, raw being scratchpad bytes 1 (high) and 0
\* (low) as a signed 16 bit integer in -32768..32767; the conversion of the
\* function gives raw / 16 also with any other high byte beside the low byte
\* read, so for all 65536 byte pairs.
C14_TemperatureRaw16 ==
  (call.op = "get_temperature" /\ Presence(bus_log) /\ ~Corrupted(bus_log)
   /\ BitsToByte(SubSeq(call.addr, 57, 64)) \in {34, 40, 59, 66})
  => LET rd == ScratchRead(bus_log)
         raw == Signed16(rd[1], rd[2])
     IN /\ call.ret = 0
        /\ raw \in -32768..32767
        /\ Len(call.out) = 1
        /\ call.out[1].den > 0
        /\ call.out[1].num * 16 = raw * call.out[1].den
        /\ \A hi \in 0..255 :
             LET t == Temperature(call.addr, [rd EXCEPT ![2] = hi])
             IN t.den > 0 /\ t.num * 16 = Signed16(rd[1], hi) * t.den

\* 0xF8 0xFF: -0.5 degrees
C14_Witness ==
  /\ call.op = "get_temperature"
  /\ call.ret = 0
  /\ ScratchRead(bus_log)[1] = 248
  /\ ScratchRead(bus_log)[2] = 255
  /\ call.out[1].num * 2 = -(call.out[1].den)

\* 0x50 0x05: 85.0 degrees
C14_Witness85 ==
  /\ call.op = "get_temperature"
  /\ call.ret = 0
  /\ ScratchRead(bus_log)[1] = 80
  /\ ScratchRead(bus_log)[2] = 5
  /\ call.out[1].num = 85 * call.out[1].den


\* the family code of an address: its most significant byte
FamilyOf(addr) == BitsToByte(SubSeq(addr, 57, 64))

\* C15: when the scratchpad of the device addressed is read without error and
\* the family code of the address is none of 0x22, 0x28, 0x3B, 0x42, the
\* device is not written (the one transaction of the call is the Read
\* Scratchpad); for a family other than 0x10 pico_1wire_get_temperature
\* returns 2 with the value raw / 16 and pico_1wire_get_resolution returns 2;
\* for 0x10 pico_1wire_get_resolution returns 0 with resolution 9;
\* pico_1wire_set_resolution returns 3 for all of them.
C15_UnsupportedFamily ==
  (/\ call.op \in {"get_temperature", "get_resolution", "set_resolution"}
   /\ call.ret # -1
   /\ Presence(bus_log)
   /\ ~Corrupted(bus_log)
   /\ FamilyOf(call.addr) \notin {34, 40, 59, 66})
  => LET rd == ScratchRead(bus_log)
         raw == Signed16(rd[1], rd[2])
     IN /\ WBytes(bus_log) = SelectBytes(call.addr) \o <<190>>
        /\ \A k \in 1..Len(bus_log) : bus_log[k].e = "reset" => k <= 2
        /\ (call.op = "get_temperature" /\ FamilyOf(call.addr) # 16)
           => /\ call.ret = 2
              /\ call.out[1].den > 0
              /\ call.out[1].num * 16 = raw * call.out[1].den
        /\ call.op = "get_resolution"
           => IF FamilyOf(call.addr) = 16
              THEN call.ret = 0 /\ call.out = <<9>>
              ELSE call.ret = 2
        /\ call.op = "set_resolution" => call.ret = 3

\* a family the library does not handle
C15_Witness ==
  /\ call.op = "set_resolution"
  /\ FamilyOf(call.addr) = 38
  /\ call.ret = 3
  /\ Len(RBits(bus_log)) = 72

\* the DS18S20
C15_WitnessDS18S20 ==
  /\ call.op = "set_resolution"
  /\ FamilyOf(call.addr) = 16
  /\ call.ret = 3
  /\ Len(RBits(bus_log)) = 72

\* the best-effort temperature
C15_WitnessTemperature ==
  /\ call.op = "get_temperature"
  /\ FamilyOf(call.addr) = 38
  /\ call.ret = 2
  /\ call.out[1].num = 17 * call.out[1].den

\* the 8 bytes of a ROM code, family code first
RomBytes(d) == BitsToBytes(d.rom)

RECURSIVE TableCrc(_, _)
\* the CRC-8 of the bytes bs folded from crc on: crc = table[crc XOR byte]
TableCrc(crc, bs) ==
  IF bs = <<>> THEN crc
  ELSE TableCrc(pico_1wire_crc8_lookup_table[Xor(crc, Head(bs)) + 1], Tail(bs))

\* ROM codes whose 8th byte is the table-driven CRC-8 (seed 0) of the first 7
CrcValidCodes ==
  {DevicePool[n].rom : n \in {m \in 1..Len(DevicePool) :
     TableCrc(0, SubSeq(RomBytes(DevicePool[m]), 1, 7)) = RomBytes(DevicePool[m])[8]}}

\* the ROM code rom is a code of CrcValidCodes with exactly one bit inverted
OneBitOff(rom) ==
  \E v \in CrcValidCodes : Cardinality({k \in 1..64 : rom[k] # v[k]}) = 1

\* C16: a ROM code whose 8th byte is the table-driven CRC-8 of its first 7
\* bytes validates: the search stores its address and pico_1wire_read_rom
\* returns 0; the same code with any single one of its 64 bits inverted does
\* not: the search stores nothing and pico_1wire_read_rom returns 2.
C16_RomCodeValidation ==
  /\ CrcValidCodes = {DevicePool[n].rom : n \in 1..Len(DevicePool)}
  /\ \A d \in devices :
       /\ Returned("search_rom") =>
            /\ d.rom \in CrcValidCodes => devices_found = 1 /\ Found = {DevAddr(d)}
            /\ OneBitOff(d.rom) => devices_found = 0
       /\ Returned("read_rom") =>
            /\ d.rom \in CrcValidCodes => call.ret = 0 /\ call.out = <<DevAddr(d)>>
            /\ OneBitOff(d.rom) => call.ret = 2

\* a search has returned without an address on a bus whose device has the
\* last bit of its CRC byte inverted
C16_Witness ==
  /\ Returned("search_rom")
  /\ devices_found = 0
  /\ \E n \in 1..Len(DevicePool) : devices = {FlipBit(DevicePool[n], 64)}

\* a search has stored the address of a device with a valid code
C16_WitnessValid ==
  /\ Returned("search_rom")
  /\ devices_found = 1
  /\ \E d \in devices : d.rom \in CrcValidCodes

\* the number of reset pulses in a log
Resets(log) == Len(SelectSeq(log, LAMBDA x : x.e = "reset"))

\* the passes of find_next_device over the bus in the log of a search, which
\* begins with the reset of pico_1wire_search_rom itself
Passes(log) == Resets(log) - 1

\* C17: on a static bus of N devices pico_1wire_search_rom returns; it calls
\* find_next_device at most N + 1 times: at most N passes over the bus, each
\* of the Search ROM command and all 64 bit positions and each yielding one
\* address, and, when the search returns 0, one terminal call after the N
\* passes that yields none; a pass that records no discrepancy sets done, and
\* the call that finds done set issues no bus activity and ends the search.
C17_SearchTerminates ==
  /\ [](call.op = "search_rom" =>
          /\ find_calls <= Cardinality(devices) + 1
          /\ devices # {} =>
               /\ Passes(bus_log) <= Cardinality(devices)
               /\ Len(WBits(bus_log)) = (8 + 64) * Passes(bus_log)
               /\ Len(RBits(bus_log)) = (2 * 64) * Passes(bus_log)
               /\ Passes(bus_log) = devices_found + (IF call.ret = 2 THEN 1 ELSE 0)
               /\ Returned("search_rom") /\ call.ret = 0 =>
                    /\ Passes(bus_log) = Cardinality(devices)
                    /\ find_calls = Cardinality(devices) + 1
               /\ Returned("search_rom") /\ call.ret = 2 =>
                    find_calls = Passes(bus_log))
  /\ [][pc = "search" =>
          /\ ~done /\ last_discrepancy' = 0 => done'
          /\ done => bus_log' = bus_log /\ pc' = "idle" /\ call'.ret = 0]_vars
  /\ ((pc = "search") ~> (pc = "idle"))

\* a search of a bus of several devices has returned 0 after its terminal call
C17_Witness ==
  /\ Returned("search_rom")
  /\ call.ret = 0
  /\ Cardinality(devices) >= 2
  /\ find_calls = Cardinality(devices) + 1
  /\ Passes(bus_log) = Cardinality(devices)

\* the read and write slots of the pass that a turn of the search loop adds
\* to the log: 8 for the Search ROM command, then 3 for each of 64 positions
PassSlots ==
  SelectSeq(SubSeq(bus_log', Len(bus_log) + 1, Len(bus_log')),
            LAMBDA x : x.e \in {"r", "w"})

\* in that pass, both complement bits of position k read 0
Discrepancy(k) == PassSlots[8 + 3 * (k - 1) + 1].v = 0 /\ PassSlots[8 + 3 * (k - 1) + 2].v = 0

\* the bit written back at position k of that pass
Written(k) == PassSlots[8 + 3 * (k - 1) + 3].v

\* the last position of that pass at which a discrepancy met the choice 0
Unexplored ==
  LET ks == {k \in 1..64 : Discrepancy(k) /\ Written(k) = 0}
  IN IF ks = {} THEN 0 ELSE CHOOSE k \in ks : \A j \in ks : j <= k

\* a turn of the search loop in which find_next_device makes a pass
SearchPass == pc = "search" /\ ~done /\ devices # {}

\* C18 as stated: at a discrepancy the pass chooses 1 at the last remembered
\* discrepancy and 0 at every other position, writes the bit chosen and
\* remembers the last position where it chose 0
C18_ZeroElsewhere ==
  [][SearchPass =>
       /\ Len(PassSlots) = 8 + 3 * 64
       /\ \A k \in 1..64 :
            Discrepancy(k) =>
              /\ U64Bit(rom_addr', k - 1) = (IF k = last_discrepancy THEN 1 ELSE 0)
              /\ Written(k) = U64Bit(rom_addr', k - 1)
       /\ last_discrepancy' = Unexplored]_vars

\* C18: at a discrepancy the pass chooses 1 at the last remembered
\* discrepancy, 0 at every position after it and, at every position before
\* it, the bit it chose there in the pass before; it writes the bit chosen
\* and remembers the last position where it chose 0
C18_DiscrepancyChoice ==
  [][SearchPass =>
       /\ Len(PassSlots) = 8 + 3 * 64
       /\ \A k \in 1..64 :
            Discrepancy(k) =>
              /\ U64Bit(rom_addr', k - 1) =
                   (IF k = last_discrepancy THEN 1
                    ELSE IF k > last_discrepancy THEN 0
                    ELSE U64Bit(rom_addr, k - 1))
              /\ Written(k) = U64Bit(rom_addr', k - 1)
       /\ last_discrepancy' = Unexplored]_vars

\* the slots of the last pass of a log
LastPassSlots(log) ==
  LET sl == SelectSeq(log, LAMBDA x : x.e \in {"r", "w"})
  IN SubSeq(sl, Len(sl) - (8 + 3 * 64) + 1, Len(sl))

\* the search has made a pass that met two discrepancies and chose 1 at both:
\* at the last remembered one, and before it at one where the pass before
\* chose 1
C18_Witness ==
  /\ pc = "search"
  /\ find_calls >= 2
  /\ \E k1, k2 \in 1..64 :
       /\ k1 < k2
       /\ \A k \in {k1, k2} :
            /\ LastPassSlots(bus_log)[8 + 3 * (k - 1) + 1].v = 0
            /\ LastPassSlots(bus_log)[8 + 3 * (k - 1) + 2].v = 0
            /\ LastPassSlots(bus_log)[8 + 3 * (k - 1) + 3].v = 1

\* a step that is a call of find_next_device
FindCall == pc \in {"find", "exhausted"} /\ call'.op = "find_next_device"

C19_WitnessRestart ==
  /\ pc = "exhausted"
  /\ call.op = "find_next_device"
  /\ call.ret = 1
  /\ find_calls >= 3
  /\ bus_log # <<>>

\* the reset pulses and bit slots of a log, in the order issued
BusActivity(log) == SelectSeq(log, LAMBDA x : x.e \in {"reset", "w", "r"})

\* the bit slots between the reset pulse at position j of a and the next one
Transaction(a, j) ==
  Bind(CHOOSE n \in (j + 1)..(Len(a) + 1) :
         /\ n = Len(a) + 1 \/ a[n].e = "reset"
         /\ \A k \in (j + 1)..(n - 1) : a[k].e # "reset",
       LAMBDA n : SubSeq(a, j + 1, n - 1))

\* the slots from..to of t are there and are all of kind e
Slots(t, from, to, e) == Len(t) >= to /\ \A k \in from..to : t[k].e = e

\* the byte written in the slots from..from+7 of t, -1 when they are not 8 write slots
ByteWritten(t, from) ==
  IF Slots(t, from, from + 7, "w")
  THEN BitsToByte([k \in 1..8 |-> t[from + k - 1].v])
  ELSE -1

RomCommands == {CMD_SEARCH, CMD_READ, CMD_MATCH, CMD_SKIP}

FunctionCommands ==
  {CMD_CONVERT, CMD_WRITE_SCRATCHPAD, CMD_READ_SCRATCHPAD, CMD_READ_POWER_SUPPLY}

\* the slots of t from position from on are a function command byte and its
\* data: none after Convert T, written after Write Scratchpad, read after
\* Read Scratchpad and Read Power Supply
FunctionCommandAt(t, from) ==
  Bind(ByteWritten(t, from), LAMBDA fc :
    /\ fc \in FunctionCommands
    /\ fc = CMD_CONVERT => Len(t) = from + 7
    /\ fc = CMD_WRITE_SCRATCHPAD => Slots(t, from + 8, Len(t), "w")
    /\ fc \in {CMD_READ_SCRATCHPAD, CMD_READ_POWER_SUPPLY}
         => Slots(t, from + 8, Len(t), "r"))

\* the slots of t begin with a ROM command byte: Read ROM is followed by read
\* slots, Search ROM by two read slots and a write slot per position, Skip ROM
\* by a function command, Match ROM by 64 address slots and a function command
RomSelection(t) ==
  Bind(ByteWritten(t, 1), LAMBDA rc :
    /\ rc \in RomCommands
    /\ rc = CMD_READ => Slots(t, 9, Len(t), "r")
    /\ rc = CMD_SEARCH =>
         \A k \in 9..Len(t) : t[k].e = (IF (k - 8) % 3 = 0 THEN "w" ELSE "r")
    /\ rc = CMD_SKIP => FunctionCommandAt(t, 9)
    /\ rc = CMD_MATCH => Slots(t, 9, 72, "w") /\ FunctionCommandAt(t, 73))

CommandOrder(a) ==
  /\ a # <<>> => a[1].e = "reset"
  /\ \A j \in 1..Len(a) :
       a[j].e = "reset" =>
         Bind(Transaction(a, j), LAMBDA t :
           /\ a[j].v = 0 => t = <<>>
           /\ t # <<>> => RomSelection(t))

\* C20: in every call of every public function a bit slot is issued only
\* after a reset pulse that detected presence; the first byte written after
\* the pulse is a ROM command (0xF0, 0x33, 0x55, 0xCC), a function command
\* (0x44, 0x4E, 0xBE, 0xB4) is written only right after the Skip ROM byte or
\* the 8 address bytes of Match ROM, and every other slot is address, data or
\* search slot of the command before it.
C20_CommandOrder == CommandOrder(BusActivity(bus_log))

\* pico_1wire_set_resolution has read and written the scratchpad of an
\* addressed device: two transactions, Match ROM and a function command each
C20_Witness ==
  /\ call.op = "set_resolution"
  /\ call.ret = 0
  /\ call.addr # NULL_BUS_ADDRESS
  /\ Resets(bus_log) = 2
  /\ Bind(BusActivity(bus_log), LAMBDA a :
       /\ ByteWritten(a, 2) = CMD_MATCH
       /\ ByteWritten(a, 74) = CMD_READ_SCRATCHPAD)

\* a call on the empty bus: the reset pulse found no presence
C20_WitnessNoPresence ==
  /\ devices = {}
  /\ call.op = "convert_temperature"
  /\ call.ret # 0
  /\ BusActivity(bus_log) = <<Ev("reset", 0)>>

\* a pass of the search: Search ROM after the reset pulse of
\* find_next_device, which follows the one of pico_1wire_search_rom
C20_WitnessSearch ==
  /\ call.op = "search_rom"
  /\ devices_found > 0
  /\ Bind(BusActivity(bus_log), LAMBDA a : Len(a) > 10 /\ ByteWritten(a, 3) = CMD_SEARCH)

\* the devices of the bus whose ROM code carries its CRC-8
ValidDevices == {d \in devices : RomValid(d)}

\* the address the last pass of the search has read is the ROM code of d
PassRead(addr, d) == \A k \in 1..64 : U64Bit(addr, k - 1) = d.rom[k]

\* C21: in pico_1wire_search_rom the pass that has read a ROM code failing
\* its CRC stores no address, leaves *devices_found as it is and does not
\* end the search; the search returns 0 with the addresses of all the
\* CRC-valid devices when the list holds them, before and after the failing
\* one, and 2 only when the valid devices alone exceed the list; the failing
\* address is never in the list.
C21_BadCrcSkipped ==
  /\ [](call.op = "search_rom" =>
          /\ Found \subseteq {DevAddr(d) : d \in ValidDevices}
          /\ call.ret \in {0, 2}
          /\ pc = "idle" =>
               /\ addr_list_size >= Cardinality(ValidDevices) =>
                    /\ call.ret = 0
                    /\ Found = {DevAddr(d) : d \in ValidDevices}
                    /\ devices_found = Cardinality(ValidDevices)
                    /\ find_calls = Cardinality(devices) + 1
               /\ call.ret = 2 =>
                    /\ Cardinality(ValidDevices) > addr_list_size
                    /\ devices_found = addr_list_size)
  /\ [][(/\ pc = "search"
         /\ Len(bus_log') > Len(bus_log)
         /\ \E d \in devices \ ValidDevices : PassRead(rom_addr', d))
        => /\ addr_list' = addr_list
           /\ devices_found' = devices_found
           /\ call'.ret = 0
           /\ pc' = "search"]_vars

\* a search has returned 0 with two addresses from a bus of three devices,
\* the first device it read being the one with the code in error
C21_Witness ==
  /\ Returned("search_rom")
  /\ call.ret = 0
  /\ Cardinality(devices) = 3
  /\ devices_found = 2
  /\ Cardinality(ValidDevices) = 2
  /\ \E d \in devices \ ValidDevices :
       \A e \in ValidDevices :
         \E k \in 1..64 : /\ d.rom[k] < e.rom[k]
                          /\ \A j \in 1..(k - 1) : d.rom[j] = e.rom[j]

\* the pass that read the code in error has just ended: nothing stored, the
\* search going on
C21_WitnessSkipped ==
  /\ pc = "search"
  /\ find_calls = 1
  /\ devices_found = 0
  /\ \E d \in devices \ ValidDevices : PassRead(rom_addr, d)

\* the samples the sampling loop of pico_1wire_reset_bus can make: i = 0, 10 .. 240
ResetSamples == Cardinality({i \in 0..240 : i % 10 = 0})

\* C22: pico_1wire_reset_bus holds the line low for 480 us; from the release
\* on it sleeps 480 us in all (15 us, 10 us after each sample that read high,
\* and 480 - 15 - i at the end), whether the line is low at the first sample,
\* at a later one or at none; it samples 25 times at most, stops at the first
\* low sample, and the argument of the last sleep is not negative.
C22_ResetTiming ==
  call.op = "reset_bus_times" =>
    LET tx_sleep == call.out[1]
        samples == call.out[2]
        slept == call.out[3]
        rx_sleep == call.out[4]
        seen == devices # {} /\ pulse_at < ResetSamples
    IN /\ tx_sleep = 480
       /\ slept + rx_sleep = 480
       /\ rx_sleep >= 0
       /\ samples <= ResetSamples
       /\ call.ret = (IF seen THEN 1 ELSE 0)
       /\ seen => /\ samples = pulse_at + 1
                  /\ slept = 15 + 10 * pulse_at
                  /\ rx_sleep = 480 - 15 - 10 * pulse_at
       /\ ~seen => /\ samples = ResetSamples
                   /\ slept = 15 + 10 * ResetSamples
                   /\ rx_sleep = 480 - 15 - 250

\* presence seen at the last sample, i = 240
C22_Witness ==
  /\ call.op = "reset_bus_times"
  /\ call.ret = 1
  /\ pulse_at = 24
  /\ call.out[2] = 25

\* presence seen at the first sample
C22_WitnessFirst ==
  /\ call.op = "reset_bus_times"
  /\ call.ret = 1
  /\ pulse_at = 0
  /\ call.out[4] = 465

\* no presence: devices that pull the line low too late, and no device
C22_WitnessNever ==
  /\ call.op = "reset_bus_times"
  /\ call.ret = 0
  /\ devices # {}
  /\ call.out[4] = 215

\* C23: the master only pulls the data line low or releases it: after every
\* write slot the data pin is a floating input again, and in no reachable
\* state is it an output driven high. The data pin is an output of the model
\* only after write_bit, whose last gpio_put on it, for a 1 as for a 0, is
\* gpio_put(ctx->data_pin, true) with no gpio_set_dir(GPIO_IN) after it.
C23_DataPinReleased == gpio_dir.data = "in"

\* C24: for a DS18S20 (family 0x10) with count_per_degree > 0,
\* pico_1wire_get_temperature returns
\* base - 0.25 + (count_per_degree - count_remain) / count_per_degree, base
\* being the raw 16 bit reading without its half-degree bit, floor(raw / 2),
\* for every signed raw reading, the negative odd ones included.
C24_LegacyFloorBase ==
  (call.op = "get_temperature" /\ Presence(bus_log) /\ ~Corrupted(bus_log)
   /\ ADDR_FAMILY_CODE(call.addr) = FAMILY_CODE_DS18S20
   /\ ScratchRead(bus_log)[8] > 0)
  => LET rd == ScratchRead(bus_log)
         raw == Signed16(rd[1], rd[2])
         base == raw \div 2
         count_remain == rd[7]
         count_per_degree == rd[8]
         t == call.out[1]
     IN /\ call.ret = 0
        /\ t.den > 0
        /\ t.num * 4 * count_per_degree
             = t.den * (4 * count_per_degree * base - count_per_degree
                        + 4 * (count_per_degree - count_remain))

\* the level of the power pin when event k of log happens, level being the
\* one before the log
LevelAt(level, log, k) == LastPower(level, SubSeq(log, 1, k - 1))

\* the MOSFET is off at every reset pulse and bit slot of log
SlotsUnpowered(level, log) ==
  ctx.power_available =>
    \A k \in 1..Len(log) :
      log[k].e \in {"reset", "w", "r"} => LevelAt(level, log, k) = 1 - ctx.power_state

\* C25: whenever the master pulls the data line low for a reset pulse or runs
\* a read or write slot the strong pull-up MOSFET is off; the pull-up that
\* pico_1wire_convert_temperature leaves on when wait is false stays on after
\* the return, and the next public function that uses the bus switches it off
\* in its reset, before it drives the line.
C25_PullUpOffInSlots ==
  /\ [](call.op = "init" => SlotsUnpowered(0, bus_log))
  /\ [][/\ SlotsUnpowered(power_level, bus_log')
        /\ call.op # "none" /\ call'.op = "none" => power_level' = power_level
        /\ (/\ ctx.power_available
            /\ power_level = ctx.power_state
            /\ BusActivity(bus_log') # <<>>)
           => /\ bus_log'[1] = Ev("pwr", 1 - ctx.power_state)
              /\ bus_log'[2].e = "reset"]_vars

\* pico_1wire_convert_temperature with wait false has returned on a bus with a
\* parasitic device and has left the pull-up on, after its last slot
C25_Witness ==
  /\ call.op = "convert_temperature"
  /\ call.arg = 0
  /\ call.ret = 0
  /\ ctx.power_available
  /\ ~ctx.psu_present
  /\ power_level = ctx.power_state
  /\ bus_log[Len(bus_log)] = Ev("pwr", ctx.power_state)
  /\ SlotsUnpowered(1 - ctx.power_state, bus_log)

\* a function called after it has begun with the reset that switches the
\* pull-up off
C25_WitnessNext ==
  /\ call.op = "get_temperature"
  /\ ctx.power_available
  /\ ~ctx.psu_present
  /\ power_level = 1 - ctx.power_state
  /\ Len(bus_log) > 2
  /\ bus_log[1] = Ev("pwr", 1 - ctx.power_state)
  /\ bus_log[2] = Ev("reset", 1)

\* C26: whatever the bus answers, a data line held low included, no address
\* that pico_1wire_search_rom stores in addr_list and counts in
\* *devices_found, and no address that pico_1wire_read_rom returns with status
\* 0, is the wildcard address 0.
C26_NoWildcardAddress ==
  /\ call.op = "search_rom" => NULL_BUS_ADDRESS \notin Found
  /\ (call.op = "read_rom" /\ call.ret = 0) => call.out[1] # NULL_BUS_ADDRESS

====
